---- MODULE Spec2Model ----
(***************************************************************************)
(* Verification model of carta-electiva-api: the vectorized election       *)
(* finder (core/election_engine.py and its collaborators), the contextual  *)
(* normalizer (utils/scc_calculator.py, utils/ranking_system.py) and the   *)
(* legacy two-phase search (core/algoritmo_busqueda.py).                   *)
(*                                                                         *)
(* Conventions.  Angles are integers, Deg units per degree, so 8.01        *)
(* degrees is 8 * Deg + 1.  Instants are integer minutes.  Scores are      *)
(* integers in half points (1.0 point = 2, 0.5 point = 1).  A NumPy array  *)
(* of N elements is a sequence 1..N; Python index idx is position idx + 1. *)
(* A Python dict is a function whose DOMAIN is its key set.                *)
(***************************************************************************)
EXTENDS Integers, Sequences, FiniteSets, TLC

\* world: the sky and the failure points of the external providers
\* natal_reference: the natal chart the caller holds for the whole session
\* finder, pc, call, result, first_answer, runs, instances: a VectorizedElectionFinder
\*   and its caller
\* eph, hou: direct calls of the ephemeris adapter and the house calculator
\* scc: a batch under contextual normalization
\* legacy: the legacy two-phase search
\* fn: a direct call of one of the library's functions, with its arguments
\* carta_electiva_cache: the table of the lru_cache of the electional charts
\* task_progress: the progress of the search tasks of the service, by task_id
\* background: the background coroutine and the search thread of every task
VARIABLES world, natal_reference, finder, pc, call, result, first_answer, runs, instances,
          eph, hou, scc, legacy, fn, carta_electiva_cache, task_progress, background

\* ------------------------------------------------------------------------
\* Units and bounds of the model
\* ------------------------------------------------------------------------
Deg == 100
Circle == 360 * Deg
SignWidth == 30 * Deg

MaxIntervals == 3
MaxRuns == 2
MaxInstances == 2
MaxBatch == 3
MaxValue == 3

\* an optional argument: None, or Some(v) whose value is opt[1]
None == <<>>
Some(v) == <<v>>
\* the outcome of a call: an exception left it, or it returned a value
Raised == [raised |-> TRUE]
Returned(v) == [raised |-> FALSE, value |-> v]

Min(a, b) == IF a <= b THEN a ELSE b
Max(a, b) == IF a >= b THEN a ELSE b
Abs(a) == IF a < 0 THEN -a ELSE a
Range(s) == {s[i] : i \in DOMAIN s}

\* int(x / y) of Python for integers x and y > 0: truncation toward zero
TruncDiv(x, y) == IF x >= 0 THEN x \div y ELSE -((-x) \div y)

RECURSIVE SumSeq(_)
SumSeq(s) == IF s = <<>> THEN 0 ELSE Head(s) + SumSeq(Tail(s))

\* ------------------------------------------------------------------------
\* core/vectorized_logic.py : VectorizedLogic
\* ------------------------------------------------------------------------
ARIES == 0
TAURUS == 1
GEMINI == 2
CANCER == 3
LEO == 4
VIRGO == 5
LIBRA == 6
SCORPIO == 7
SAGITTARIUS == 8
CAPRICORN == 9
AQUARIUS == 10
PISCES == 11

Signs == 0..11
Planets == 0..6

\* self.RULER_MAP as built by __init__ (sign -> SwissEph id)
RULER_MAP_init ==
    [s \in Signs |->
        CASE s = ARIES -> 4 [] s = TAURUS -> 3 [] s = GEMINI -> 2
          [] s = CANCER -> 1 [] s = LEO -> 0 [] s = VIRGO -> 2
          [] s = LIBRA -> 3 [] s = SCORPIO -> 4 [] s = SAGITTARIUS -> 5
          [] s = CAPRICORN -> 6 [] s = AQUARIUS -> 6 [] s = PISCES -> 5]

\* self.EXALTATION_MAP (planet -> sign)
EXALTATION_MAP_init ==
    [p \in Planets |->
        CASE p = 0 -> ARIES [] p = 1 -> TAURUS [] p = 2 -> VIRGO
          [] p = 3 -> PISCES [] p = 4 -> CAPRICORN [] p = 5 -> CANCER
          [] p = 6 -> LIBRA]

\* the list DETRIMENT_MAP[planet] after the loop over RULER_MAP.items():
\* the opposite of every sign the planet rules, in sign order
RECURSIVE DetrimentList(_, _, _)
DetrimentList(RM, planet, s) ==
    IF s > 11 THEN <<>>
    ELSE (IF s \in DOMAIN RM /\ RM[s] = planet THEN <<(s + 6) % 12>> ELSE <<>>)
         \o DetrimentList(RM, planet, s + 1)

DETRIMENT_MAP_init ==
    [p \in {RULER_MAP_init[s] : s \in Signs} |-> DetrimentList(RULER_MAP_init, p, 0)]

\* mutant: the fall of a body is the sign of its exaltation
FALL_MAP_exaltation_sign ==
    [p \in DOMAIN EXALTATION_MAP_init |-> EXALTATION_MAP_init[p]]

FALL_MAP_init ==
    [p \in DOMAIN EXALTATION_MAP_init |-> (EXALTATION_MAP_init[p] + 6) % 12]

\* the instance attributes of one VectorizedLogic object
VectorizedLogic_init ==
    [RULER_MAP |-> RULER_MAP_init,
     EXALTATION_MAP |-> EXALTATION_MAP_init,
     DETRIMENT_MAP |-> DETRIMENT_MAP_init,
     FALL_MAP |-> FALL_MAP_init]

TRIPLICITY_RULERS ==
    [s \in Signs |->
        CASE s \in {ARIES, LEO, SAGITTARIUS} -> <<0, 5, 6>>
          [] s \in {TAURUS, VIRGO, CAPRICORN} -> <<3, 1, 4>>
          [] s \in {GEMINI, LIBRA, AQUARIUS} -> <<6, 2, 5>>
          [] s \in {CANCER, SCORPIO, PISCES} -> <<3, 4, 1>>]

\* Egyptian terms: sign -> list of <<upper bound in degrees, planet>>
TERMS_MAP ==
    [s \in Signs |->
        CASE s = ARIES -> << <<6, 5>>, <<12, 3>>, <<20, 2>>, <<25, 4>>, <<30, 6>> >>
          [] s = TAURUS -> << <<8, 3>>, <<14, 2>>, <<22, 5>>, <<27, 6>>, <<30, 4>> >>
          [] s = GEMINI -> << <<6, 2>>, <<12, 5>>, <<17, 3>>, <<24, 4>>, <<30, 6>> >>
          [] s = CANCER -> << <<7, 4>>, <<13, 3>>, <<19, 2>>, <<26, 5>>, <<30, 6>> >>
          [] s = LEO -> << <<6, 5>>, <<11, 3>>, <<18, 6>>, <<24, 2>>, <<30, 4>> >>
          [] s = VIRGO -> << <<7, 2>>, <<17, 3>>, <<21, 5>>, <<28, 4>>, <<30, 6>> >>
          [] s = LIBRA -> << <<6, 6>>, <<14, 3>>, <<21, 5>>, <<28, 2>>, <<30, 4>> >>
          [] s = SCORPIO -> << <<7, 4>>, <<11, 3>>, <<19, 2>>, <<24, 5>>, <<30, 6>> >>
          [] s = SAGITTARIUS -> << <<12, 5>>, <<17, 3>>, <<21, 2>>, <<26, 6>>, <<30, 4>> >>
          [] s = CAPRICORN -> << <<7, 2>>, <<14, 5>>, <<22, 3>>, <<26, 6>>, <<30, 4>> >>
          [] s = AQUARIUS -> << <<7, 2>>, <<13, 3>>, <<20, 5>>, <<25, 4>>, <<30, 6>> >>
          [] s = PISCES -> << <<12, 3>>, <<16, 5>>, <<19, 2>>, <<28, 4>>, <<30, 6>> >>]

\* self.RULER_MAP.get(sign_index, 0)
get_ruler_for_sign(L, sign_index) ==
    IF sign_index \in DOMAIN L.RULER_MAP THEN L.RULER_MAP[sign_index] ELSE 0

\* (longitudes // 30).astype(int) % 12, for one longitude
get_sign_indices(lon) == (lon \div SignWidth) % 12

\* np.isin(signs, ruled_signs + [exalted_sign]) for one longitude
mask_dignity(L, planet_id, lon) ==
    LET sign == get_sign_indices(lon)
        ruled_signs == {s \in DOMAIN L.RULER_MAP : L.RULER_MAP[s] = planet_id}
        good_signs == IF planet_id \in DOMAIN L.EXALTATION_MAP
                      THEN ruled_signs \cup {L.EXALTATION_MAP[planet_id]}
                      ELSE ruled_signs
    IN sign \in good_signs

\* np.isin(signs, list(detriment_signs) + [fall_sign]) for one longitude
mask_debility(L, planet_id, lon) ==
    LET sign == get_sign_indices(lon)
        detriment_signs == IF planet_id \in DOMAIN L.DETRIMENT_MAP
                           THEN Range(L.DETRIMENT_MAP[planet_id]) ELSE {}
        bad_signs == IF planet_id \in DOMAIN L.FALL_MAP
                     THEN detriment_signs \cup {L.FALL_MAP[planet_id]}
                     ELSE detriment_signs
    IN sign \in bad_signs

\* np.isin(sign_indices, forbidden_signs)
mask_signs(lon, forbidden_signs) == get_sign_indices(lon) \in forbidden_signs

\* minimal circular separation: min(|a - b|, 360 - |a - b|)
calculate_aspects(a, b) == Min(Abs(a - b), Circle - Abs(a - b))

mask_exact_aspect(body1, body2, aspect_angle, orb) ==
    Abs(calculate_aspects(body1, body2) - aspect_angle) <= orb

\* mutant: only the new Moon is a phase
mask_phase_new_moon_only(sun, moon, orb) == calculate_aspects(sun, moon) <= orb

mask_phase(sun, moon, orb) ==
    LET diff == calculate_aspects(sun, moon)
    IN (diff <= orb) \/ (Abs(diff - 180 * Deg) <= orb)

MajorAspects == {0, 60, 90, 120, 180}
VocTargetBodies == {0, 2, 3, 4, 5, 6}

\* mutant: every body present is a target, the Moon and the node included
mask_void_of_course_every_body(moon_lon, planet_positions) ==
    LET dist_to_ingress == ((moon_lon \div SignWidth) * SignWidth + SignWidth) - moon_lon
    IN ~(\E pid \in DOMAIN planet_positions : \E asp \in MajorAspects :
            \E target \in {(planet_positions[pid] + asp * Deg) % Circle,
                           (planet_positions[pid] - asp * Deg) % Circle} :
                ((target - moon_lon) % Circle) < dist_to_ingress)

\* mask_void_of_course for one instant; planet_positions maps body -> longitude
mask_void_of_course(moon_lon, planet_positions) ==
    LET current_sign_start == (moon_lon \div SignWidth) * SignWidth
        dist_to_ingress == (current_sign_start + SignWidth) - moon_lon
        occurs(pid, asp) ==
            \E target \in {(planet_positions[pid] + asp * Deg) % Circle,
                           (planet_positions[pid] - asp * Deg) % Circle} :
                ((target - moon_lon) % Circle) < dist_to_ingress
    IN ~(\E pid \in VocTargetBodies \cap DOMAIN planet_positions :
            \E asp \in MajorAspects : occurs(pid, asp))

\* ------------------------------------------------------------------------
\* The external providers (Swiss Ephemeris): a deterministic function of the
\* instant, drawn from a small set of skies, that may fail at given points.
\* ------------------------------------------------------------------------
AllBodies == 0..11
SearchBodies == <<0, 1, 2, 3, 4, 5, 6, 10>>

\* a sky: per body the longitude at minute 0 and the motion per half hour
\* (whole degrees), and the sign of the longitudinal speed
SkyA ==
    [base |-> [b \in AllBodies |->
                 CASE b = 0 -> 0 [] b = 1 -> 100 [] b = 2 -> 20 [] b = 3 -> 50
                   [] b = 4 -> 150 [] b = 5 -> 222 [] b = 6 -> 330
                   [] OTHER -> 15 * b],
     rate |-> [b \in AllBodies |-> IF b = 1 THEN 1 ELSE 0],
     speed |-> [b \in AllBodies |-> IF b \in {10, 11} THEN -1 ELSE 1],
     asc0 |-> 200, ascRate |-> 8]

SkyB ==
    [base |-> [b \in AllBodies |->
                 CASE b = 0 -> 95 [] b = 1 -> 262 [] b = 2 -> 80 [] b = 3 -> 130
                   [] b = 4 -> 24 [] b = 5 -> 300 [] b = 6 -> 196
                   [] OTHER -> 7 * b],
     rate |-> [b \in AllBodies |-> IF b = 1 THEN 4 ELSE 0],
     speed |-> [b \in AllBodies |-> IF b \in {2, 10, 11} THEN -1 ELSE 1],
     asc0 |-> 10, ascRate |-> 9]

SkyC ==
    [base |-> [b \in AllBodies |->
                 CASE b = 0 -> 280 [] b = 1 -> 58 [] b = 2 -> 290 [] b = 3 -> 240
                   [] b = 4 -> 118 [] b = 5 -> 61 [] b = 6 -> 5
                   [] OTHER -> 11 * b],
     rate |-> [b \in AllBodies |-> IF b = 1 THEN 2 ELSE 0],
     speed |-> [b \in AllBodies |-> IF b \in {4, 10, 11} THEN 0 - 1 ELSE 1],
     asc0 |-> 118, ascRate |-> 7]

\* a sky with Mars on the Midheaven at the first instants and the Moon
\* entering Scorpio afterwards, and a sky at the full Moon
SkyD ==
    [base |-> [b \in AllBodies |->
                 CASE b = 0 -> 100 [] b = 1 -> 206 [] b = 2 -> 119 [] b = 3 -> 50
                   [] b = 4 -> 12 [] b = 5 -> 169 [] b = 6 -> 250
                   [] OTHER -> 13 * b],
     rate |-> [b \in AllBodies |-> IF b = 1 THEN 2 ELSE 0],
     speed |-> [b \in AllBodies |-> IF b \in {10, 11} THEN -1 ELSE 1],
     asc0 |-> 100, ascRate |-> 6]

SkyE ==
    [base |-> [b \in AllBodies |->
                 CASE b = 0 -> 20 [] b = 1 -> 195 [] b = 2 -> 29 [] b = 3 -> 50
                   [] b = 4 -> 65 [] b = 5 -> 169 [] b = 6 -> 250
                   [] OTHER -> 13 * b],
     rate |-> [b \in AllBodies |-> IF b = 1 THEN 1 ELSE 0],
     speed |-> [b \in AllBodies |-> IF b \in {10, 11} THEN -1 ELSE 1],
     asc0 |-> 100, ascRate |-> 6]

\* a sky with the Moon at the end of Cancer and no aspect point ahead of it
SkyF == [SkyE EXCEPT !.base = [@ EXCEPT ![1] = 118, ![2] = 25]]

Skies == {SkyA, SkyB, SkyC}

\* offsets of the twelve cusps from the Ascendant (unequal, quadrant style)
CuspOffset == <<0, 28, 58, 90, 122, 152, 180, 208, 238, 270, 302, 332>>

\* swe.julday(year, month, day, hour_decimal): the instant split into its
\* calendar day and the decimal hour, here <<day, minute of the day>>
julday(day, minute_of_day) == <<day, minute_of_day>>

\* t.hour + t.minute/60.0 + t.second/3600.0 and the call of swe.julday
to_jd(t) == julday(t \div 1440, t % 1440)

JdMinutes(jd) == jd[1] * 1440 + jd[2]

\* swe.calc_ut(jd, body, flags)[0]: (lon, lat, dist, speed_lon, speed_lat, speed_dist)
calc_ut(w, jd, body) ==
    LET m == JdMinutes(jd)
        lon == ((w.sky.base[body] + w.sky.rate[body] * (m \div 30)) % 360) * Deg
    IN <<lon, 1, body + 1, w.sky.speed[body], 0, 0>>

calc_ut_fails(w, jd, body) == <<body, JdMinutes(jd)>> \in w.ephFail

\* swe.houses(jd, lat, lon, hsys): (12 cusps, 10 angles with Asc and MC first)
swe_houses(w, jd) ==
    LET m == JdMinutes(jd)
        asc == (w.sky.asc0 + w.sky.ascRate * (m \div 30)) % 360
        cusp(h) == ((asc + CuspOffset[h]) % 360) * Deg
    IN [cusps |-> [h \in 1..12 |-> cusp(h)],
        ascmc |-> [k \in 1..10 |-> IF k = 1 THEN cusp(1)
                                   ELSE IF k = 2 THEN cusp(10) ELSE 0]]

swe_houses_fails(w, jd) == JdMinutes(jd) \in w.houseFail

\* ------------------------------------------------------------------------
\* core/vectorized_ephemeris.py : VectorizedEphemeris
\* ------------------------------------------------------------------------
IDX_LONG == 0
IDX_SPEED_LONG == 3

BODIES_values == <<0, 1, 2, 3, 4, 5, 6, 7, 8, 9, 10, 11>>

ZeroRecord == <<0, 0, 0, 0, 0, 0>>

\* np.vectorize(converter)(times): raises ValueError on a size 0 input
convert_times_to_jd(times) ==
    IF Len(times) = 0 THEN Raised
    ELSE Returned([i \in 1..Len(times) |-> to_jd(times[i])])

\* mutant: only the rows of the failing instants are zero filled
positions_of_body_zero_failed_rows(w, jds, body) ==
    [i \in 1..Len(jds) |-> IF calc_ut_fails(w, jds[i], body) THEN ZeroRecord
                           ELSE calc_ut(w, jds[i], body)]

\* the try block for one body: the list comprehension over all instants, or
\* the zero filled fallback of the except branch
positions_of_body(w, jds, body) ==
    IF \E i \in 1..Len(jds) : calc_ut_fails(w, jds[i], body)
    THEN [i \in 1..Len(jds) |-> ZeroRecord]
    ELSE [i \in 1..Len(jds) |-> calc_ut(w, jds[i], body)]

\* the calls of swe.calc_ut the list comprehension of one body makes: all the
\* instants, or the instants up to and including the first failing one
calc_ut_calls_of_body(w, jds, body) ==
    LET failing == {i \in 1..Len(jds) : calc_ut_fails(w, jds[i], body)}
    IN IF failing = {} THEN Len(jds)
       ELSE CHOOSE i \in failing : \A j \in failing : i <= j

\* calculate_positions(times, bodies): dict body -> (N, 6) array, or Raised
calculate_positions(w, times, bodies) ==
    LET bs == IF bodies = None THEN BODIES_values ELSE bodies[1]
        jds == convert_times_to_jd(times)
    IN IF jds.raised THEN Raised
       ELSE Returned([b \in Range(bs) |-> positions_of_body(w, jds.value, b)])

get_longitudes(positions) ==
    [k \in DOMAIN positions |->
        [i \in 1..Len(positions[k]) |-> positions[k][i][IDX_LONG + 1]]]

get_speeds(positions) ==
    [k \in DOMAIN positions |->
        [i \in 1..Len(positions[k]) |-> positions[k][i][IDX_SPEED_LONG + 1]]]

\* ------------------------------------------------------------------------
\* core/vectorized_houses.py : VectorizedHouses
\* ------------------------------------------------------------------------
\* mutant: the instants whose house computation fails are skipped
calculate_houses_skipping_failures(w, times) ==
    LET ok == SelectSeq([i \in 1..Len(times) |-> to_jd(times[i])],
                        LAMBDA jd : ~swe_houses_fails(w, jd))
    IN Returned([cusps |-> [i \in 1..Len(ok) |-> swe_houses(w, ok[i]).cusps],
                 ascmc |-> [i \in 1..Len(ok) |-> swe_houses(w, ok[i]).ascmc]])

\* calculate_houses(times, lat, lon): (cusps (N, 12), ascmc (N, 10)); an
\* exception of swe.houses at any instant propagates to the caller
calculate_houses(w, times) ==
    LET jds == [i \in 1..Len(times) |-> to_jd(times[i])]
    IN IF \E i \in 1..Len(times) : swe_houses_fails(w, jds[i])
       THEN Raised
       ELSE Returned([cusps |-> [i \in 1..Len(times) |-> swe_houses(w, jds[i]).cusps],
                      ascmc |-> [i \in 1..Len(times) |-> swe_houses(w, jds[i]).ascmc]])

\* ------------------------------------------------------------------------
\* core/vectorized_scoring.py : VectorizedScoring, evaluated at one instant.
\* A group is the list of its <<component name, value>> pairs in the order
\* the code adds them; the group total is the sum of the values and the
\* details dict is the dict of the pairs.
\* ------------------------------------------------------------------------
\* mutant: only the positive values are added to the total
GroupTotal_positive_only(pairs) == SumSeq([i \in 1..Len(pairs) |-> Max(pairs[i][2], 0)])

GroupTotal(pairs) == SumSeq([i \in 1..Len(pairs) |-> pairs[i][2]])

\* a dict built by assigning the pairs in order (a later assignment wins)
DictOf(pairs) ==
    [k \in {pairs[i][1] : i \in 1..Len(pairs)} |->
        LET last == CHOOSE i \in 1..Len(pairs) :
                        /\ pairs[i][1] = k
                        /\ \A j \in 1..Len(pairs) : pairs[j][1] = k => j <= i
        IN pairs[last][2]]

\* {**a, **b}
MergeDicts(a, b) == b @@ a

\* a body inside house h_idx (0 based): [cusp, next cusp) with the wrap at 360
in_house(lon, cusps, h_idx) ==
    LET cusp_start == cusps[h_idx + 1]
        cusp_end == cusps[((h_idx + 1) % 12) + 1]
        case_normal == cusp_start < cusp_end
    IN \/ (case_normal /\ lon >= cusp_start /\ lon < cusp_end)
       \/ (~case_normal /\ (lon >= cusp_start \/ lon < cusp_end))

\* the three soft aspects with the orbs the scorer uses (8 for the
\* conjunction, 6 for sextile and trine), each worth pts when present
soft_aspect_points(a, b, pts) ==
    (IF mask_exact_aspect(a, b, 0, 8 * Deg) THEN pts ELSE 0)
    + (IF mask_exact_aspect(a, b, 60 * Deg, 6 * Deg) THEN pts ELSE 0)
    + (IF mask_exact_aspect(a, b, 120 * Deg, 6 * Deg) THEN pts ELSE 0)

\* get_ruler_positions inside calculate_moon_score, at one instant
get_ruler_positions(L, sign, planet_longs) ==
    LET pid == get_ruler_for_sign(L, sign)
    IN IF pid \in DOMAIN planet_longs THEN planet_longs[pid] ELSE 0

calculate_moon_score(L, moon, sun, planet_longs, house_cusps, ascmc) ==
    LET sign == get_sign_indices(moon)
        diff_sun_moon == (moon - sun) % Circle
        score_aspect(planet_id, aspect_angle, points, name) ==
            IF planet_id \notin DOMAIN planet_longs THEN <<>>
            ELSE LET orb == IF aspect_angle = 0 THEN 8 * Deg ELSE 6 * Deg
                 IN << <<name, IF mask_exact_aspect(moon, planet_longs[planet_id],
                                                     aspect_angle * Deg, orb)
                                THEN points ELSE 0>> >>
        is_favorable_house == \E h_idx \in {4, 8, 9, 10} : in_house(moon, house_cusps, h_idx)
        ruler_asc_pos == get_ruler_positions(L, get_sign_indices(ascmc[1]), planet_longs)
        ruler_h10_pos == get_ruler_positions(L, get_sign_indices(house_cusps[10]), planet_longs)
    IN << <<"moon_cancer", IF sign = CANCER THEN 2 ELSE 0>>,
          <<"moon_taurus", IF sign = TAURUS THEN 2 ELSE 0>>,
          <<"moon_waxing", IF diff_sun_moon > 0 /\ diff_sun_moon < 180 * Deg THEN 2 ELSE 0>> >>
       \o score_aspect(5, 120, 2, "moon_trine_jup")
       \o score_aspect(5, 60, 2, "moon_sext_jup")
       \o score_aspect(5, 0, 2, "moon_conj_jup")
       \o score_aspect(3, 120, 2, "moon_trine_ven")
       \o score_aspect(3, 60, 2, "moon_sext_ven")
       \o score_aspect(3, 0, 2, "moon_conj_ven")
       \o score_aspect(0, 120, 2, "moon_trine_sun")
       \o score_aspect(0, 60, 2, "moon_sext_sun")
       \o << <<"moon_favorable_house", IF is_favorable_house THEN 2 ELSE 0>>,
             <<"moon_aspect_ruler_asc", soft_aspect_points(moon, ruler_asc_pos, 4)>>,
             <<"moon_aspect_ruler_h10", soft_aspect_points(moon, ruler_h10_pos, 4)>> >>

\* the ruler is in one of its terms: some (bound, ruler) of the sign's terms
\* names the planet and holds the degree in [previous bound, bound)
in_own_term(pid, lon) ==
    LET terms == TERMS_MAP[get_sign_indices(lon)]
        deg == lon % SignWidth
    IN \E k \in 1..Len(terms) :
          /\ terms[k][2] = pid
          /\ deg >= (IF k = 1 THEN 0 ELSE terms[k - 1][1]) * Deg
          /\ deg < terms[k][1] * Deg

calculate_ruler_score(L, prefix, ruler_long, ruler_id, sun, planet_longs, house_cusps, ruler_speed) ==
    LET sign == get_sign_indices(ruler_long)
        known == ruler_id \in 0..6
        ruled_signs == {s \in DOMAIN L.RULER_MAP : L.RULER_MAP[s] = ruler_id}
        is_dom == known /\ sign \in ruled_signs
        is_exalt == known /\ ruler_id \in DOMAIN L.EXALTATION_MAP
                          /\ sign = L.EXALTATION_MAP[ruler_id]
        is_trip == known /\ ruler_id \in Range(TRIPLICITY_RULERS[sign])
        is_term == known /\ in_own_term(ruler_id, ruler_long)
        direct == IF ruler_speed = None THEN <<>>
                  ELSE << <<prefix \o "_direct", IF ruler_speed[1] > 0 THEN 2 ELSE 0>> >>
        is_not_combust == calculate_aspects(ruler_long, sun) > 17 * Deg
        is_fav_house == \E h_idx \in {0, 9, 10, 8, 4} : in_house(ruler_long, house_cusps, h_idx)
        add_aspect_points(target_pid, target_name) ==
            IF target_pid \notin DOMAIN planet_longs THEN <<>>
            ELSE << <<prefix \o "_aspect_" \o target_name,
                      soft_aspect_points(ruler_long, planet_longs[target_pid], 2)>> >>
    IN << <<prefix \o "_domicile", IF is_dom THEN 2 ELSE 0>>,
          <<prefix \o "_exaltation", IF is_exalt THEN 2 ELSE 0>>,
          <<prefix \o "_triplicity", IF is_trip THEN 1 ELSE 0>>,
          <<prefix \o "_term", IF is_term THEN 1 ELSE 0>> >>
       \o direct
       \o << <<prefix \o "_not_combust", IF is_not_combust THEN 2 ELSE 0>>,
             <<prefix \o "_fav_house", IF is_fav_house THEN 2 ELSE 0>> >>
       \o add_aspect_points(5, "jupiter")
       \o add_aspect_points(3, "venus")

\* natal_chart is a dict (possibly empty); "if not natal_chart" returns no details
calculate_natal_score(ascmc, cusps, natal_chart) ==
    LET asc_elect == ascmc[1]
        mc_elect == ascmc[2]
        penalty(pid, name) ==
            IF pid \notin DOMAIN natal_chart THEN <<>>
            ELSE << <<name, IF mask_exact_aspect(asc_elect, natal_chart[pid], 0, 5 * Deg)
                            THEN 0 - 4 ELSE 0>> >>
        score_natal_aspect(elect_point, natal_pid, points_conj, points_trine,
                           points_sext, name) ==
            IF natal_pid \notin DOMAIN natal_chart THEN <<>>
            ELSE LET nat_pos == natal_chart[natal_pid]
                 IN << <<name,
                         (IF mask_exact_aspect(elect_point, nat_pos, 0, 5 * Deg)
                          THEN points_conj ELSE 0)
                         + (IF mask_exact_aspect(elect_point, nat_pos, 120 * Deg, 5 * Deg)
                            THEN points_trine ELSE 0)
                         + (IF mask_exact_aspect(elect_point, nat_pos, 60 * Deg, 5 * Deg)
                            THEN points_sext ELSE 0)>> >>
    IN IF DOMAIN natal_chart = {} THEN <<>>
       ELSE penalty(6, "natal_asc_conj_sat")
         \o penalty(4, "natal_asc_conj_mar")
         \o score_natal_aspect(asc_elect, 0, 2, 2, 2, "natal_asc_sun")
         \o score_natal_aspect(asc_elect, 1, 2, 2, 2, "natal_asc_moon")
         \o score_natal_aspect(asc_elect, 3, 2, 2, 2, "natal_asc_ven")
         \o score_natal_aspect(asc_elect, 5, 2, 2, 2, "natal_asc_jup")
         \o score_natal_aspect(asc_elect, 12, 4, 2, 2, "natal_asc_asc")
         \o score_natal_aspect(mc_elect, 0, 2, 0, 0, "natal_mc_conj_sun")
         \o score_natal_aspect(mc_elect, 1, 2, 0, 0, "natal_mc_conj_moon")
         \o score_natal_aspect(mc_elect, 3, 2, 0, 0, "natal_mc_conj_ven")
         \o score_natal_aspect(mc_elect, 5, 2, 0, 0, "natal_mc_conj_jup")

calculate_combinations_score(ruler_asc_long, ruler_h10_long, planet_longs, ascmc, cusps, natal_asc_sign) ==
    LET rulers_aspect ==
            \/ mask_exact_aspect(ruler_asc_long, ruler_h10_long, 0, 8 * Deg)
            \/ mask_exact_aspect(ruler_asc_long, ruler_h10_long, 60 * Deg, 6 * Deg)
            \/ mask_exact_aspect(ruler_asc_long, ruler_h10_long, 120 * Deg, 6 * Deg)
        is_in_h10(lon) == in_house(lon, cusps, 9)
        in_h1(lon) == in_house(lon, cusps, 0)
        bonus(pid, name) ==
            IF pid \notin DOMAIN planet_longs THEN <<>>
            ELSE << <<name, IF is_in_h10(planet_longs[pid]) THEN 4 ELSE 0>> >>
        skip_saturn == natal_asc_sign # None /\ natal_asc_sign[1] \in {9, 10}
        skip_mars == natal_asc_sign # None /\ natal_asc_sign[1] \in {0, 7}
        malefic(skip, pid, name_h10, name_asc) ==
            IF skip \/ pid \notin DOMAIN planet_longs THEN <<>>
            ELSE << <<name_h10, IF is_in_h10(planet_longs[pid]) THEN 0 - 2 ELSE 0>>,
                    <<name_asc, IF in_h1(planet_longs[pid]) THEN 0 - 2 ELSE 0>> >>
    IN << <<"comb_pos_rulers_aspect", IF rulers_aspect THEN 4 ELSE 0>> >>
       \o bonus(0, "comb_pos_sun_h10")
       \o bonus(5, "comb_pos_jup_h10")
       \o bonus(1, "comb_pos_moon_h10")
       \o malefic(skip_saturn, 6, "comb_neg_saturn_h10", "comb_neg_saturn_asc")
       \o malefic(skip_mars, 4, "comb_neg_mars_h10", "comb_neg_mars_asc")

\* ------------------------------------------------------------------------
\* core/theme_config.py
\* ------------------------------------------------------------------------
THEMES ==
    [name \in {"trabajo", "lanzamiento", "amor", "dinero", "viaje", "inmobiliaria"} |->
        [target_house |-> CASE name = "trabajo" -> 10 [] name = "lanzamiento" -> 10
                            [] name = "amor" -> 7 [] name = "dinero" -> 2
                            [] name = "viaje" -> 9 [] name = "inmobiliaria" -> 4]]

\* str.lower() on the topic names the model uses
Lower(name) ==
    CASE name = "AMOR" -> "amor"
      [] name = "Trabajo" -> "trabajo"
      [] OTHER -> name

\* mutant: the fallback is another topic of the table
get_theme_config_fallback_amor(theme_name) ==
    IF Lower(theme_name) \in DOMAIN THEMES THEN THEMES[Lower(theme_name)]
    ELSE THEMES["amor"]

\* THEMES.get(theme_name.lower(), THEMES["trabajo"])
get_theme_config(theme_name) ==
    IF Lower(theme_name) \in DOMAIN THEMES THEN THEMES[Lower(theme_name)]
    ELSE THEMES["trabajo"]

\* ------------------------------------------------------------------------
\* core/election_engine.py : VectorizedElectionFinder.find_elections
\* ------------------------------------------------------------------------
EmptyChart == << >>

\* round(n / d, 0) of Python for n >= 0: half to even
RoundHalfEven(n, d) ==
    LET q == n \div d
        r == n % d
    IN IF 2 * r < d THEN q
       ELSE IF 2 * r > d THEN q + 1
       ELSE IF q % 2 = 0 THEN q ELSE q + 1

Clamp(x, lo, hi) == Min(Max(x, lo), hi)

\* mutant: the grid runs through the end instant
time_grid_through_end(start_dt, end_dt, interval_minutes) ==
    LET total_intervals == TruncDiv(end_dt - start_dt, interval_minutes)
    IN [i \in 1..(total_intervals + 1) |-> start_dt + (i - 1) * interval_minutes]

\* the time grid: total_intervals = int(total_seconds / (interval * 60)) and
\* start + i * interval for i in range(total_intervals)
time_grid(start_dt, end_dt, interval_minutes) ==
    LET total_intervals == TruncDiv(end_dt - start_dt, interval_minutes)
    IN [i \in 1..total_intervals |-> start_dt + (i - 1) * interval_minutes]

\* the indices of the rows to build (0 based, ascending)
\* mutant: the rejected instants are dropped whatever return_all says
indices_to_process_valid_only(return_all, is_rejected) ==
    LET RECURSIVE where(_)
        where(i) == IF i > Len(is_rejected) THEN <<>>
                    ELSE (IF ~is_rejected[i] THEN <<i - 1>> ELSE <<>>) \o where(i + 1)
    IN where(1)

\* mutant: every instant is processed whatever return_all says
indices_to_process_everything(return_all, is_rejected) ==
    [i \in 1..Len(is_rejected) |-> i - 1]

indices_to_process(return_all, is_rejected) ==
    IF return_all THEN [i \in 1..Len(is_rejected) |-> i - 1]
    ELSE LET RECURSIVE where(_)
             where(i) == IF i > Len(is_rejected) THEN <<>>
                         ELSE (IF ~is_rejected[i] THEN <<i - 1>> ELSE <<>>) \o where(i + 1)
         IN where(1)

\* find_elections, steps 4 to 6: the rejection masks of one instant
rejection_masks(L, target_house, longs, spds, cusps, ascmc) ==
    LET moon == longs[1]
        sun == longs[0]
        \* 4. universal Moon filters
        mask_moon_sign == mask_signs(moon, {7, 9})
        phase == mask_phase(sun, moon, 8 * Deg)
        voc == mask_void_of_course(moon, longs)
        \* 5. ruler of the sign on the cusp of the target house
        cusp_sign == get_sign_indices(cusps[target_house])
        ruler_h10_id == get_ruler_for_sign(L, cusp_sign)
        \* 6. malefics on the angles
        asc == ascmc[1]
        mc == ascmc[2]
        dsc == (asc + 180 * Deg) % Circle
        ic == (mc + 180 * Deg) % Circle
    IN [is_bad_moon |-> mask_moon_sign \/ phase \/ voc,
        is_bad_ruler |-> mask_debility(L, ruler_h10_id, longs[ruler_h10_id])
                         \/ spds[ruler_h10_id] < 0,
        is_bad_natal |-> FALSE,
        is_malefic_on_angle |->
            \E malefic_id \in {4, 6} : \E angle \in {asc, mc, dsc, ic} :
                calculate_aspects(longs[malefic_id], angle) <= 5 * Deg]

\* find_elections, step 8: the details of the five score groups of one
\* instant: Moon, ruler of the Ascendant, ruler of the target house, natal
\* linkage, combinations
score_groups(L, natal, ruler_asc_id, ruler_h10_id, longs, spds, cusps, ascmc) ==
    << calculate_moon_score(L, longs[1], longs[0], longs, cusps, ascmc),
       calculate_ruler_score(L, "ruler_asc", longs[ruler_asc_id], ruler_asc_id,
                             longs[0], longs, cusps, Some(spds[ruler_asc_id])),
       calculate_ruler_score(L, "ruler_h10", longs[ruler_h10_id], ruler_h10_id,
                             longs[0], longs, cusps, Some(spds[ruler_h10_id])),
       calculate_natal_score(ascmc, cusps, natal),
       calculate_combinations_score(longs[ruler_asc_id], longs[ruler_h10_id], longs,
                                    ascmc, cusps, None) >>

\* all_details = {**details_moon, **details_r_asc, **details_r_h10,
\* **details_natal, **details_comb}
all_details_of(groups) ==
    MergeDicts(MergeDicts(MergeDicts(MergeDicts(DictOf(groups[1]), DictOf(groups[2])),
                                     DictOf(groups[3])), DictOf(groups[4])), DictOf(groups[5]))

\* the label and the stars of a hybrid score, in thirtieths of a percent
label_of(score_hybrid30) ==
    IF score_hybrid30 >= 2400 THEN "Excelente"
    ELSE IF score_hybrid30 >= 1800 THEN "Muy Bueno"
    ELSE IF score_hybrid30 >= 1200 THEN "Bueno"
    ELSE IF score_hybrid30 >= 600 THEN "Regular"
    ELSE "Pobre"

stars_of(score_hybrid30) ==
    IF score_hybrid30 >= 2400 THEN 5
    ELSE IF score_hybrid30 >= 1800 THEN 4
    ELSE IF score_hybrid30 >= 1200 THEN 3
    ELSE IF score_hybrid30 >= 600 THEN 2
    ELSE 1

\* UX normalization: general against 30 points, natal against 10 points,
\* in thirds of a percent; the hybrid 0.7 / 0.3 blend in thirtieths
norm_gen3_of(s_general) == Clamp(5 * s_general, 0, 300)
norm_nat3_of(score_natal) == Clamp(15 * score_natal, 0, 300)
score_hybrid30_of(s_general, score_natal) ==
    7 * norm_gen3_of(s_general) + 3 * norm_nat3_of(score_natal)

\* the sum of the values of a dict
sum_values(S) ==
    LET RECURSIVE go(_)
        go(Q) == IF Q = {} THEN 0
                 ELSE LET k == CHOOSE x \in Q : TRUE
                      IN S[k] + go(Q \ {k})
    IN go(DOMAIN S)

\* the row of the DataFrame for one instant, from the totals of the five
\* groups and the merged details
result_row(t, moon, is_rejected, scores, total_score, hybrid30, all_details) ==
    [timestamp |-> t,
     is_valid |-> ~is_rejected,
     flags |-> IF is_rejected THEN <<"rejected">> ELSE <<>>,
     moon_sign |-> moon \div SignWidth,
     score_total |-> total_score,
     score_general |-> total_score - scores[4],
     score_natal |-> scores[4],
     score_positive |-> sum_values([k \in DOMAIN all_details |-> Max(all_details[k], 0)]),
     score_negative |-> sum_values([k \in DOMAIN all_details |-> Min(all_details[k], 0)]),
     score_normalized |-> RoundHalfEven(hybrid30, 3),
     norm_general |-> RoundHalfEven(10 * norm_gen3_of(total_score - scores[4]), 3),
     norm_natal |-> RoundHalfEven(10 * norm_nat3_of(scores[4]), 3),
     label |-> label_of(hybrid30),
     stars |-> stars_of(hybrid30),
     score_moon |-> scores[1],
     score_r_asc |-> scores[2],
     score_r_h10 |-> scores[3],
     score_comb |-> scores[5],
     components |-> [k \in {n \in DOMAIN all_details : Abs(all_details[n]) > 0} |->
                        all_details[k]]]

\* the totals of the five groups
group_totals(groups) == [g \in 1..5 |-> GroupTotal(groups[g])]

\* the outcome of one instant from its masks and its groups
instant_outcome(t, moon, masks, groups, scores) ==
    [is_rejected |-> masks.is_bad_moon \/ masks.is_bad_ruler \/ masks.is_bad_natal
                     \/ masks.is_malefic_on_angle,
     groups |-> groups,
     masks |-> masks,
     row |-> result_row(t, moon,
                        masks.is_bad_moon \/ masks.is_bad_ruler \/ masks.is_bad_natal
                            \/ masks.is_malefic_on_angle,
                        scores, scores[1] + scores[2] + scores[3] + scores[4] + scores[5],
                        score_hybrid30_of(scores[1] + scores[2] + scores[3] + scores[5],
                                          scores[4]),
                        all_details_of(groups))]

\* the outcome of one instant from its groups: their totals are taken once
instant_scored(t, moon, masks, groups) ==
    instant_outcome(t, moon, masks, groups, group_totals(groups))

\* everything find_elections computes for the instant at position i
eval_instant(L, natal, target_house, t, longs, spds, cusps, ascmc) ==
    instant_scored(t, longs[1],
                   rejection_masks(L, target_house, longs, spds, cusps, ascmc),
                   score_groups(L, natal,
                                get_ruler_for_sign(L, get_sign_indices(ascmc[1])),
                                get_ruler_for_sign(L, get_sign_indices(cusps[target_house])),
                                longs, spds, cusps, ascmc))

\* What find_elections(start_dt, end_dt, lat, lon, natal_chart, topic,
\* interval_minutes, return_all) leaves its caller with, on a finder whose logic tables are L, under
\* the providers of world w.  The outcome records the grid that was built,
\* the target house, the number of provider position calls made, the four
\* rejection masks over the grid, and either the rows of the returned
\* DataFrame or the fact that an exception left the call.
find_elections_returns(L, w, natal_chart_arg, a) ==
    LET natal == IF natal_chart_arg = None THEN EmptyChart ELSE natal_chart_arg[1]
        config == get_theme_config(a.topic)
        times_arr == time_grid(a.start_dt, a.end_dt, a.interval_minutes)
        N == Len(times_arr)
        positions == calculate_positions(w, times_arr, Some(SearchBodies))
        houses == IF positions.raised THEN Raised ELSE calculate_houses(w, times_arr)
        base == [grid |-> times_arr, target_house |-> config.target_house]
        position_calls ==
            SumSeq([k \in 1..Len(SearchBodies) |->
                      calc_ut_calls_of_body(w, convert_times_to_jd(times_arr).value,
                                            SearchBodies[k])])
    IN IF positions.raised
       THEN base @@ [raised |-> TRUE, position_calls |-> 0, masks |-> <<>>, rows |-> <<>>]
       ELSE IF houses.raised
       THEN base @@ [raised |-> TRUE, position_calls |-> position_calls, masks |-> <<>>,
                     rows |-> <<>>]
       ELSE
         LET longitudes == get_longitudes(positions.value)
             speeds == get_speeds(positions.value)
             ev == [i \in 1..N |->
                      eval_instant(L, natal, config.target_house, times_arr[i],
                                   [b \in DOMAIN longitudes |-> longitudes[b][i]],
                                   [b \in DOMAIN speeds |-> speeds[b][i]],
                                   houses.value.cusps[i], houses.value.ascmc[i])]
             is_rejected == [i \in 1..N |-> ev[i].is_rejected]
             idxs == indices_to_process(a.return_all, is_rejected)
         IN base @@ [raised |-> FALSE, position_calls |-> position_calls,
                     masks |-> [i \in 1..N |-> ev[i].masks],
                     rows |-> [k \in 1..Len(idxs) |-> ev[idxs[k] + 1].row]]

\* ------------------------------------------------------------------------
\* The callers' side: the worlds, natal charts and requests explored
\* ------------------------------------------------------------------------
NatalA ==
    [k \in {0, 1, 3, 4, 5, 6, 12} |->
        (CASE k = 0 -> 200 [] k = 1 -> 80 [] k = 3 -> 140 [] k = 4 -> 10
           [] k = 5 -> 290 [] k = 6 -> 45 [] k = 12 -> 320) * Deg]

NatalB == [k \in {0, 6} |-> (IF k = 0 THEN 12 ELSE 203) * Deg]

\* a natal chart with its Ascendant (key 12) in Scorpio, a sign Mars rules
NatalC == [k \in {0, 4, 12} |-> (CASE k = 0 -> 95 [] k = 4 -> 301 [] k = 12 -> 215) * Deg]

NatalCharts == {None, Some(EmptyChart), Some(NatalA), Some(NatalB), Some(NatalC)}

\* every sky with providers that never fail, and one sky with a position
\* failure (Saturn at minute 30) or a house failure (at minute 60)
Worlds ==
    {[sky |-> s, ephFail |-> {}, houseFail |-> {}] : s \in Skies \cup {SkyD, SkyE, SkyF}}
    \cup {[sky |-> SkyA, ephFail |-> {<<6, 30>>}, houseFail |-> {}],
          [sky |-> SkyA, ephFail |-> {}, houseFail |-> {60}]}

Topics == {"trabajo", "AMOR", "salud"}
Durations == {-60, 0, 45, 90, 120, 180}
Intervals == {30, 60}

Requests ==
    {[start_dt |-> 0, end_dt |-> d, topic |-> tp, interval_minutes |-> iv,
      return_all |-> ra] :
        d \in Durations, tp \in Topics, iv \in Intervals, ra \in BOOLEAN}

\* ------------------------------------------------------------------------
\* The finder: construction, a caller issuing a request, the handler
\* ------------------------------------------------------------------------
finder_vars == <<finder, pc, call, result, first_answer, runs, instances>>
other_vars == <<eph, hou, scc, legacy, fn, carta_electiva_cache, task_progress, background>>
vars == <<world, natal_reference, finder_vars, other_vars>>

NoCall == [start_dt |-> 0, end_dt |-> 0, topic |-> "", interval_minutes |-> 0,
           return_all |-> FALSE]
NoResult == [raised |-> FALSE, grid |-> <<>>, target_house |-> 0,
             position_calls |-> 0, masks |-> <<>>, rows |-> <<>>]

\* no direct call of a library function
NoFn == [op |-> "none"]

\* task_progress = {}: no task has been started
NoTasks == << >>

\* no legacy search object exists
NoLegacy == [phase |-> "absent", fecha_inicio |-> 0, fecha_fin |-> 0,
             calc |-> [carta_natal_cache |-> "None"],
             momentos_fase1 |-> << >>, pendientes |-> {}, aptos |-> {},
             momentos_prometedores |-> << >>, completados |-> {},
             momentos_enraizados |-> << >>, raised |-> FALSE, retorno |-> << >>,
             sesion |-> 0, calculos_fase_1 |-> 0, calculos_fase_2 |-> 0]

NoBatch == [op |-> "none", valores |-> << >>, out |-> << >>]
NoEphCall == [called |-> FALSE, times |-> <<>>, bodies |-> None, out |-> Raised]
NoHouCall == [called |-> FALSE, times |-> <<>>, out |-> Raised]

\* VectorizedElectionFinder.__init__: the logic tables of a new instance
VectorizedElectionFinder_init == [logic |-> VectorizedLogic_init]

InitFinder ==
    /\ world \in Worlds
    /\ natal_reference \in NatalCharts
    /\ finder = VectorizedElectionFinder_init
    /\ pc = "idle"
    /\ call = NoCall
    /\ result = NoResult
    /\ first_answer = None
    /\ runs = 0
    /\ instances = 1
    /\ eph = NoEphCall /\ hou = NoHouCall /\ scc = NoBatch /\ legacy = NoLegacy /\ fn = NoFn
    /\ carta_electiva_cache = {}
    /\ task_progress = NoTasks /\ background = NoTasks

\* the caller builds a new finder instance between two runs
NewFinder ==
    /\ pc = "done"
    /\ instances < MaxInstances
    /\ finder' = VectorizedElectionFinder_init
    /\ instances' = instances + 1
    /\ UNCHANGED <<world, natal_reference, pc, call, result, first_answer, runs, other_vars>>

\* the caller issues its request
Call ==
    /\ pc = "idle"
    /\ runs < MaxRuns
    /\ \E a \in Requests :
          /\ TruncDiv(a.end_dt - a.start_dt, a.interval_minutes) <= MaxIntervals
          /\ call' = a
          /\ first_answer' = None
    /\ pc' = "called"
    /\ result' = NoResult
    /\ UNCHANGED <<world, natal_reference, finder, runs, instances, other_vars>>

\* the caller issues the request of the completed call once more, and keeps
\* the first answer to compare
CallAgain ==
    /\ pc = "done"
    /\ runs < MaxRuns
    /\ first_answer' = Some(result)
    /\ pc' = "called"
    /\ result' = NoResult
    /\ UNCHANGED <<world, natal_reference, finder, call, runs, instances, other_vars>>

\* mutant: the handler consumes the ruler table it reads
find_elections_consuming_rulers ==
    /\ pc = "called"
    /\ result' = find_elections_returns(finder.logic, world, natal_reference, call)
    /\ finder' = [finder EXCEPT !.logic.RULER_MAP = << >>]
    /\ pc' = "done"
    /\ runs' = runs + 1
    /\ UNCHANGED <<world, natal_reference, call, first_answer, instances, other_vars>>

\* the handler, from entry to return (or to the exception leaving it)
find_elections ==
    /\ pc = "called"
    /\ result' = find_elections_returns(finder.logic, world, natal_reference, call)
    /\ pc' = "done"
    /\ runs' = runs + 1
    /\ UNCHANGED <<world, natal_reference, finder, call, first_answer, instances, other_vars>>

NextFinder == NewFinder \/ Call \/ CallAgain \/ find_elections

Spec == InitFinder /\ [][NextFinder]_vars

\* ------------------------------------------------------------------------
\* Claims about find_elections
\* ------------------------------------------------------------------------
Returned_rows == pc = "done" /\ ~result.raised

RowFields ==
    {"timestamp", "is_valid", "flags", "moon_sign", "score_total", "score_general",
     "score_natal", "score_positive", "score_negative", "score_normalized",
     "norm_general", "norm_natal", "label", "stars", "score_moon", "score_r_asc",
     "score_r_h10", "score_comb", "components"}

Labels == {"Excelente", "Muy Bueno", "Bueno", "Regular", "Pobre"}

\* the score fields of a row are populated: every field is present, the total
\* is the sum of the group scores, the positive and negative sums are those of
\* the components, and the presentation fields are those of the scores
Populated(row) ==
    LET comps == row.components
        RECURSIVE sum_pos(_), sum_neg(_)
        sum_pos(Q) == IF Q = {} THEN 0
                      ELSE LET k == CHOOSE x \in Q : TRUE
                           IN Max(comps[k], 0) + sum_pos(Q \ {k})
        sum_neg(Q) == IF Q = {} THEN 0
                      ELSE LET k == CHOOSE x \in Q : TRUE
                           IN Min(comps[k], 0) + sum_neg(Q \ {k})
    IN /\ DOMAIN row = RowFields
       /\ row.score_total = row.score_moon + row.score_r_asc + row.score_r_h10
                            + row.score_natal + row.score_comb
       /\ row.score_general = row.score_total - row.score_natal
       /\ row.score_positive = sum_pos(DOMAIN comps)
       /\ row.score_negative = sum_neg(DOMAIN comps)
       /\ row.score_normalized \in 0..1000
       /\ row.label \in Labels
       /\ row.stars \in 1..5

\* C1: find_elections called with return_all=True returns exactly one row per
\* instant of the time grid, in grid order; a row whose is_valid is False is
\* flagged "rejected" and carries the same populated score fields as an
\* accepted row.
C1_ReturnAllOneRowPerInstant ==
    (Returned_rows /\ call.return_all) =>
        /\ Len(result.rows) = Len(result.grid)
        /\ \A i \in 1..Len(result.rows) :
              /\ result.rows[i].timestamp = result.grid[i]
              /\ result.rows[i].timestamp = call.start_dt + (i - 1) * call.interval_minutes
              /\ Populated(result.rows[i])
              /\ result.rows[i].flags =
                    (IF result.rows[i].is_valid THEN <<>> ELSE <<"rejected">>)

C1_Witness ==
    /\ Returned_rows /\ call.return_all
    /\ Len(result.rows) >= 2
    /\ \E i \in 1..Len(result.rows) :
          ~result.rows[i].is_valid /\ result.rows[i].score_total # 0
                                   /\ result.rows[i].components # << >>
    /\ \E i \in 1..Len(result.rows) : result.rows[i].is_valid

AnyMask(m) ==
    m.is_bad_moon \/ m.is_bad_ruler \/ m.is_bad_natal \/ m.is_malefic_on_angle

Timestamps(rows) == {rows[i].timestamp : i \in 1..Len(rows)}

IsValidRow(row) == row.is_valid

\* C2: for the same inputs, the rows returned with return_all=False are
\* exactly the rows of the return_all=True result whose is_valid is True, in
\* the same order and with identical field values; no instant for which any
\* rejection mask is true appears in the strict result.
C2_StrictIsValidRowsOfAll ==
    (pc = "done" /\ ~call.return_all) =>
        LET all == find_elections_returns(finder.logic, world, natal_reference,
                                          [call EXCEPT !.return_all = TRUE])
        IN /\ result.raised = all.raised
           /\ result.rows = SelectSeq(all.rows, IsValidRow)
           /\ \A i \in 1..Len(result.masks) :
                 AnyMask(result.masks[i]) => result.grid[i] \notin Timestamps(result.rows)

C2_Witness ==
    /\ Returned_rows /\ ~call.return_all
    /\ Len(result.rows) >= 1
    /\ Len(result.rows) < Len(result.grid)
    /\ \E i \in 1..Len(result.masks) : result.masks[i].is_malefic_on_angle
    /\ \E i \in 1..Len(result.masks) : result.masks[i].is_bad_moon

\* C3: running the search twice with identical inputs, on the same finder
\* instance or on a fresh one, produces identical result lists: the later run
\* is not influenced by any state left by the earlier one.
C3_RepeatedRunSameResult ==
    (pc = "done" /\ first_answer # None) => result = first_answer[1]

C3_Witness ==
    /\ pc = "done" /\ first_answer # None
    /\ runs = 2
    /\ ~result.raised
    /\ Len(result.rows) >= 2
    /\ \E i \in 1..Len(result.rows) : result.rows[i].is_valid

C3_WitnessFreshInstance ==
    C3_Witness /\ instances = 2

\* the grid the claim describes: start + k * step for k = 0..N-1 with
\* N = floor((end - start) / step)
GridOfClaim(a) ==
    LET N == (a.end_dt - a.start_dt) \div a.interval_minutes
    IN [i \in 1..N |-> a.start_dt + (i - 1) * a.interval_minutes]

GridIsExact ==
    /\ result.grid = GridOfClaim(call)
    /\ \A i, j \in 1..Len(result.grid) : i < j => result.grid[i] < result.grid[j]
    /\ \A i \in 1..Len(result.grid) : result.grid[i] < call.end_dt

\* C4 as stated: the grid is exactly start + k*step for k = 0..N-1, it
\* contains the start instant, is strictly increasing with no duplicates, and
\* every instant is earlier than end.
C4_GridContainsStart ==
    pc = "done" =>
        /\ GridIsExact
        /\ call.start_dt \in Range(result.grid)

\* C4 amended: the grid is exactly start + k*step for k = 0..N-1, strictly
\* increasing with no duplicates, every instant earlier than end; when N >= 1
\* its first instant is the start instant, and when end - start < step it is
\* empty and does not contain the start instant.
C4_GridExactStartWhenNonEmpty ==
    pc = "done" =>
        /\ GridIsExact
        /\ (call.end_dt - call.start_dt >= call.interval_minutes
               => result.grid[1] = call.start_dt)
        /\ (call.end_dt - call.start_dt < call.interval_minutes
               => result.grid = << >>)

C4_Witness ==
    /\ pc = "done"
    /\ Len(result.grid) >= 3
    /\ result.grid[Len(result.grid)] + call.interval_minutes = call.end_dt

C4_WitnessEmptyGrid ==
    /\ pc = "done"
    /\ call.end_dt > call.start_dt
    /\ result.grid = << >>

UnknownTopic(a) == Lower(a.topic) \notin DOMAIN THEMES

\* C5: a search whose topic is not in the topic table behaves exactly as a
\* search with the default topic: the target house is that of "trabajo"
\* (house 10) and the results are identical to those of the default topic.
C5_UnknownTopicIsDefaultTopic ==
    (pc = "done" /\ UnknownTopic(call)) =>
        /\ result.target_house = 10
        /\ result.target_house = THEMES["trabajo"].target_house
        /\ result = find_elections_returns(finder.logic, world, natal_reference,
                                           [call EXCEPT !.topic = "trabajo"])

C5_Witness ==
    /\ Returned_rows /\ UnknownTopic(call)
    /\ \E i \in 1..Len(result.rows) : result.rows[i].is_valid
    /\ \E i \in 1..Len(result.masks) : result.masks[i].is_bad_ruler

\* C6 as stated: a configuration error in a search request (a topic that is
\* not in the topic table, or a date range whose end is not after its start)
\* is rejected with an error before any position is computed; no value is
\* substituted and no result list is returned.
C6_ConfigErrorRejected ==
    (pc = "done" /\ (UnknownTopic(call) \/ call.end_dt <= call.start_dt)) =>
        /\ result.raised
        /\ result.position_calls = 0
        /\ result.rows = << >>

\* ------------------------------------------------------------------------
\* Direct calls of the ephemeris adapter and of the house calculator
\* ------------------------------------------------------------------------
IdleFinder ==
    /\ natal_reference = None
    /\ finder = VectorizedElectionFinder_init
    /\ pc = "idle"
    /\ call = NoCall
    /\ result = NoResult
    /\ first_answer = None
    /\ runs = 0
    /\ instances = 1

\* the arrays of instants handed to the two components
TimeArrays ==
    {[i \in 1..n |-> t0 + (i - 1) * 30] : t0 \in {0, 30}, n \in 0..MaxIntervals}

BodyArguments == {None, Some(SearchBodies), Some(<<6>>), Some(<<1, 6>>), Some(<<>>)}

EphemerisWorlds ==
    {[sky |-> s, ephFail |-> f, houseFail |-> {}] :
        s \in Skies, f \in SUBSET {<<0, 0>>, <<6, 30>>, <<1, 60>>}}

InitEphemeris ==
    /\ world \in EphemerisWorlds
    /\ IdleFinder
    /\ eph = NoEphCall
    /\ hou = NoHouCall /\ scc = NoBatch /\ legacy = NoLegacy /\ fn = NoFn
    /\ carta_electiva_cache = {}
    /\ task_progress = NoTasks /\ background = NoTasks

\* VectorizedEphemeris.calculate_positions(times, bodies), called directly
VectorizedEphemeris_calculate_positions ==
    /\ \E times \in TimeArrays, bodies \in BodyArguments :
          eph' = [called |-> TRUE, times |-> times, bodies |-> bodies,
                  out |-> calculate_positions(world, times, bodies)]
    /\ UNCHANGED <<world, task_progress, background, natal_reference, finder_vars, hou, scc, legacy, fn, carta_electiva_cache>>

NextEphemeris == VectorizedEphemeris_calculate_positions

SpecEphemeris == InitEphemeris /\ [][NextEphemeris]_vars

HousesWorlds ==
    {[sky |-> s, ephFail |-> {}, houseFail |-> f] :
        s \in Skies, f \in SUBSET {0, 30, 60}}

InitHouses ==
    /\ world \in HousesWorlds
    /\ IdleFinder
    /\ hou = NoHouCall
    /\ eph = NoEphCall /\ scc = NoBatch /\ legacy = NoLegacy /\ fn = NoFn
    /\ carta_electiva_cache = {}
    /\ task_progress = NoTasks /\ background = NoTasks

\* VectorizedHouses.calculate_houses(times, lat, lon), called directly
VectorizedHouses_calculate_houses ==
    /\ \E times \in TimeArrays :
          hou' = [called |-> TRUE, times |-> times,
                  out |-> calculate_houses(world, times)]
    /\ UNCHANGED <<world, task_progress, background, natal_reference, finder_vars, eph, scc, legacy, fn, carta_electiva_cache>>

NextHouses == VectorizedHouses_calculate_houses

SpecHouses == InitHouses /\ [][NextHouses]_vars

RequestedBodies(bodies) == IF bodies = None THEN Range(BODIES_values) ELSE Range(bodies[1])

BodyFails(w, times, b) == \E i \in 1..Len(times) : calc_ut_fails(w, to_jd(times[i]), b)

\* C7: when the position computation of one body fails at any instant,
\* calculate_positions does not abort: the result has an entry for every
\* requested body, the failed body's entry is an all-zero N x 6 array, and
\* every other body's entry is the same as it would be had no failure
\* occurred.
C7_FailedBodyZeroFilled ==
    (eph.called /\ Len(eph.times) >= 1) =>
        LET N == Len(eph.times)
            unfailing == calculate_positions([world EXCEPT !.ephFail = {}],
                                             eph.times, eph.bodies)
        IN /\ ~eph.out.raised
           /\ DOMAIN eph.out.value = RequestedBodies(eph.bodies)
           /\ \A b \in RequestedBodies(eph.bodies) :
                 /\ Len(eph.out.value[b]) = N
                 /\ \A i \in 1..N : Len(eph.out.value[b][i]) = 6
                 /\ BodyFails(world, eph.times, b) =>
                       \A i \in 1..N : \A k \in 1..6 : eph.out.value[b][i][k] = 0
                 /\ ~BodyFails(world, eph.times, b) =>
                       eph.out.value[b] = unfailing.value[b]

C7_Witness ==
    /\ eph.called /\ Len(eph.times) >= 3
    /\ BodyFails(world, eph.times, 6) /\ ~calc_ut_fails(world, to_jd(eph.times[1]), 6)
    /\ 6 \in RequestedBodies(eph.bodies)
    /\ \E b \in RequestedBodies(eph.bodies) : ~BodyFails(world, eph.times, b)

\* C8: calculate_houses returns exactly N rows of exactly 12 cusps (and N
\* angle rows), row i depending only on instant i; a failure of the house
\* computation at one instant never produces a result in which another
\* instant's row is altered, missing or misaligned with its instant.
C8_HousesRowsAlignedOrNoResult ==
    hou.called =>
        LET N == Len(hou.times)
            failing == \E i \in 1..N : swe_houses_fails(world, to_jd(hou.times[i]))
            alone(i) == calculate_houses([world EXCEPT !.houseFail = {}],
                                         <<hou.times[i]>>).value
        IN /\ failing => hou.out.raised
           /\ ~hou.out.raised =>
                 /\ Len(hou.out.value.cusps) = N
                 /\ Len(hou.out.value.ascmc) = N
                 /\ \A i \in 1..N :
                       /\ Len(hou.out.value.cusps[i]) = 12
                       /\ hou.out.value.cusps[i] = alone(i).cusps[1]
                       /\ hou.out.value.ascmc[i] = alone(i).ascmc[1]

C8_Witness ==
    /\ hou.called /\ Len(hou.times) >= 3
    /\ ~hou.out.raised
    /\ world.houseFail # {}
    /\ hou.out.value.cusps[1] # hou.out.value.cusps[2]

C8_WitnessFailure ==
    /\ hou.called /\ Len(hou.times) >= 2
    /\ hou.out.raised
    /\ ~swe_houses_fails(world, to_jd(hou.times[1]))

\* ------------------------------------------------------------------------
\* utils/scc_calculator.py and utils/ranking_system.py : the percentile of a
\* value within a reference batch.  A percentage is the exact fraction
\* 100 * num / den, kept as the record [num, den] with den > 0.
\* ------------------------------------------------------------------------
Pct(num, den) == [num |-> num, den |-> den]
PctLeq(p, q) == p.num * q.den <= q.num * p.den
PctLess(p, q) == p.num * q.den < q.num * p.den

\* round(pct, 1) in tenths of a percent
RoundPct(p) == RoundHalfEven(1000 * p.num, p.den)

\* sorted(values)
RECURSIVE sorted(_)
sorted(values) ==
    IF values = << >> THEN << >>
    ELSE LET least == CHOOSE i \in 1..Len(values) :
                         \A j \in 1..Len(values) :
                            values[i] < values[j] \/ (values[i] = values[j] /\ i <= j)
         IN <<values[least]>>
            \o sorted([k \in 1..(Len(values) - 1) |->
                         IF k < least THEN values[k] ELSE values[k + 1]])

\* the first position (0 based) of the enumerate loop whose value is at or
\* above the points, or n when the loop ends without returning
first_at_or_above(puntos, valores_ordenados) ==
    LET hits == {i \in 1..Len(valores_ordenados) : puntos <= valores_ordenados[i]}
    IN IF hits = {} THEN Len(valores_ordenados)
       ELSE (CHOOSE i \in hits : \A j \in hits : i <= j) - 1

\* mutant: the lowest value of the batch is given the top percentile
calcular_componente_relativo_lowest_on_top(puntos, valores_referencia) ==
    LET valores_ordenados == sorted(valores_referencia)
        n == Len(valores_ordenados)
        i == first_at_or_above(puntos, valores_ordenados)
    IN IF n = 0 THEN Pct(1, 2)
       ELSE IF i = 0 THEN Pct(1, 1)
       ELSE IF i = n THEN Pct(1, 1)
       ELSE Pct(i, n)

\* SCC_Calculator._calcular_componente_relativo(puntos, valores_referencia)
calcular_componente_relativo(puntos, valores_referencia) ==
    LET valores_ordenados == sorted(valores_referencia)
        n == Len(valores_ordenados)
        i == first_at_or_above(puntos, valores_ordenados)
    IN IF n = 0 THEN Pct(1, 2)
       ELSE IF i = n THEN Pct(1, 1)
       ELSE IF i = 0 THEN Pct(0, 1)
       ELSE LET valor == valores_ordenados[i + 1]
                prev_valor == valores_ordenados[i]
            IN IF puntos = valor THEN Pct(i, n)
               ELSE IF valor # prev_valor
               THEN Pct((i - 1) * (valor - prev_valor) + (puntos - prev_valor),
                        n * (valor - prev_valor))
               ELSE Pct(i, n)

\* SCC_Calculator._estimar_percentil_aproximado(puntos)
estimar_percentil_aproximado(puntos) ==
    IF puntos >= 3 THEN Pct(95, 100)
    ELSE IF puntos >= 2 THEN Pct(85, 100)
    ELSE IF puntos >= 1 THEN Pct(70, 100)
    ELSE IF puntos >= 0 THEN Pct(50, 100)
    ELSE IF puntos >= -2 THEN Pct(30, 100)
    ELSE Pct(10, 100)

\* the relative component calcular_scc chooses for a value and its batch
relativo_pct_of(enraizamiento_puntos, valores_referencia) ==
    IF Len(valores_referencia) > 1
    THEN calcular_componente_relativo(enraizamiento_puntos, valores_referencia)
    ELSE estimar_percentil_aproximado(enraizamiento_puntos)

\* RankingSystem.calcular_percentil_valor(enraizamiento, valores_referencia);
\* a division by zero raises
calcular_percentil_valor(enraizamiento, valores_referencia) ==
    LET valores_ordenados == sorted(valores_referencia)
        n == Len(valores_ordenados)
        i == first_at_or_above(enraizamiento, valores_ordenados)
    IN IF n = 0 THEN Returned(Pct(1, 2))
       ELSE IF i = n THEN Returned(Pct(1, 1))
       ELSE IF i = 0 THEN Returned(Pct(0, 1))
       ELSE LET valor == valores_ordenados[i + 1]
                prev_valor == valores_ordenados[i]
            IN IF enraizamiento = valor THEN Returned(Pct(i, n))
               ELSE IF valor = prev_valor THEN Raised
               ELSE Returned(Pct((i - 1) * (valor - prev_valor)
                                    + (enraizamiento - prev_valor),
                                 n * (valor - prev_valor)))

\* the batches explored: the pure rooting points of the moments of a batch
PuntosValues == (0 - MaxValue)..MaxValue
Batches == UNION {[1..n -> PuntosValues] : n \in 0..MaxBatch}

InitSCC ==
    /\ world = [sky |-> SkyA, ephFail |-> {}, houseFail |-> {}]
    /\ IdleFinder
    /\ eph = NoEphCall /\ hou = NoHouCall /\ legacy = NoLegacy /\ fn = NoFn
    /\ carta_electiva_cache = {}
    /\ task_progress = NoTasks /\ background = NoTasks
    /\ scc = NoBatch

\* SCC_Calculator.procesar_momentos_con_scc(momentos): every moment of the
\* batch gets the relative component of its points within the batch (a
\* behaviour processes one batch)
procesar_momentos_con_scc ==
    /\ scc.op = "none"
    /\ \E valores \in Batches :
          scc' = [op |-> "scc", valores |-> valores,
                  out |-> [k \in 1..Len(valores) |->
                             LET rel == relativo_pct_of(valores[k], valores)
                             IN [relativo |-> rel, relativo_pct |-> RoundPct(rel)]]]
    /\ UNCHANGED <<world, task_progress, background, natal_reference, finder_vars, eph, hou, legacy, fn, carta_electiva_cache>>

\* RankingSystem.procesar_dataframe(df): every row gets the percentile of its
\* value within the column (a behaviour processes one batch)
procesar_dataframe ==
    /\ scc.op = "none"
    /\ \E valores \in Batches :
          scc' = [op |-> "ranking", valores |-> valores,
                  out |-> [k \in 1..Len(valores) |->
                             LET pv == calcular_percentil_valor(valores[k], valores)
                             IN IF pv.raised
                                THEN [raised |-> TRUE, relativo |-> Pct(0, 1),
                                      relativo_pct |-> 0]
                                ELSE [raised |-> FALSE, relativo |-> pv.value,
                                      relativo_pct |-> RoundPct(pv.value)]]]
    /\ UNCHANGED <<world, task_progress, background, natal_reference, finder_vars, eph, hou, legacy, fn, carta_electiva_cache>>

NextSCC == procesar_momentos_con_scc \/ procesar_dataframe

SpecSCC == InitSCC /\ [][NextSCC]_vars

\* C10: percentile normalization is monotonic within a batch: for any two
\* raw values a > b that both belong to the same reference batch (of at least
\* 2 values, duplicates allowed), the relative percentile of a is greater than
\* or equal to that of b.
C10_PercentileMonotonicInBatch ==
    (scc.op # "none" /\ Len(scc.valores) >= 2) =>
        \A i, j \in 1..Len(scc.valores) :
            scc.valores[i] > scc.valores[j] =>
                /\ PctLeq(scc.out[j].relativo, scc.out[i].relativo)
                /\ scc.out[j].relativo_pct <= scc.out[i].relativo_pct
                /\ scc.op = "ranking" => ~scc.out[i].raised /\ ~scc.out[j].raised

C10_Witness ==
    /\ scc.op = "scc" /\ Len(scc.valores) >= 3
    /\ \E i, j, k \in 1..Len(scc.valores) :
          /\ i # j /\ scc.valores[i] = scc.valores[j]
          /\ scc.valores[k] > scc.valores[i]
          /\ PctLess(scc.out[i].relativo, scc.out[k].relativo)
          /\ scc.out[j].relativo = scc.out[i].relativo

C10_WitnessRanking ==
    /\ scc.op = "ranking" /\ Len(scc.valores) >= 3
    /\ \E i, k \in 1..Len(scc.valores) :
          /\ scc.valores[k] > scc.valores[i]
          /\ PctLess(scc.out[i].relativo, scc.out[k].relativo)

\* ------------------------------------------------------------------------
\* utils/scc_calculator.py : the contextual score of a moment in its batch
\* ------------------------------------------------------------------------
\* SCC_Calculator._calcular_componente_absoluto(puntos): against -6 .. +10
calcular_componente_absoluto(puntos) ==
    IF puntos <= -6 THEN Pct(0, 1)
    ELSE IF puntos >= 10 THEN Pct(1, 1)
    ELSE Pct(puntos + 6, 16)

\* the weights of the blend in tenths, and the threshold in percent
PESO_ABSOLUTO == 8
PESO_RELATIVO == 2
UMBRAL_MINIMO_RECOMENDABLE == 40

\* (absoluto_pct * PESO_ABSOLUTO) + (relativo_pct * PESO_RELATIVO)
scc_blend(absoluto, relativo) ==
    Pct(PESO_ABSOLUTO * absoluto.num * relativo.den + PESO_RELATIVO * relativo.num * absoluto.den,
        10 * absoluto.den * relativo.den)

\* mutant: a candidate below the threshold keeps the label of its band
asignar_categoria_scc_bands_only(scc_value, recomendable) ==
    IF PctLeq(Pct(75, 100), scc_value) THEN "EXCEPCIONAL"
    ELSE IF PctLeq(Pct(65, 100), scc_value) THEN "SOBRE PROMEDIO"
    ELSE IF PctLeq(Pct(50, 100), scc_value) THEN "PROMEDIO"
    ELSE IF PctLeq(Pct(40, 100), scc_value) THEN "DEBAJO PROMEDIO"
    ELSE "LIMITADO"

\* SCC_Calculator._asignar_categoria_scc(scc, recomendable); the labels
\* without their pictograms
asignar_categoria_scc(scc_value, recomendable) ==
    IF ~recomendable THEN "NO RECOMENDABLE"
    ELSE IF PctLeq(Pct(75, 100), scc_value) THEN "EXCEPCIONAL"
    ELSE IF PctLeq(Pct(65, 100), scc_value) THEN "SOBRE PROMEDIO"
    ELSE IF PctLeq(Pct(50, 100), scc_value) THEN "PROMEDIO"
    ELSE IF PctLeq(Pct(40, 100), scc_value) THEN "DEBAJO PROMEDIO"
    ELSE "LIMITADO"

\* mutant: a candidate is recommended when it is in the upper half of its batch
recomendable_of_by_rank(scc_value, relativo) == PctLeq(Pct(50, 100), relativo)

\* recomendable = scc >= UMBRAL_MINIMO_RECOMENDABLE
recomendable_of(scc_value, relativo) ==
    PctLeq(Pct(UMBRAL_MINIMO_RECOMENDABLE, 100), scc_value)

\* SCC_Calculator.calcular_scc(enraizamiento_puntos, valores_referencia):
\* 0.8 of the absolute plus 0.2 of the relative component; the rounded
\* fields are in tenths of a percent
calcular_scc(enraizamiento_puntos, valores_referencia) ==
    LET absoluto == calcular_componente_absoluto(enraizamiento_puntos)
        relativo == relativo_pct_of(enraizamiento_puntos, valores_referencia)
        blended == scc_blend(absoluto, relativo)
        recomendable == recomendable_of(blended, relativo)
    IN [scc |-> RoundPct(blended),
        absoluto_pct |-> RoundPct(absoluto),
        relativo_pct |-> RoundPct(relativo),
        recomendable |-> recomendable,
        categoria |-> asignar_categoria_scc(blended, recomendable)]

\* ------------------------------------------------------------------------
\* core/algoritmo_busqueda.py and core/enraizamiento_calculator.py : the
\* legacy two-phase search.  The charts of the astrology library are taken
\* from the sky of the world; a natal chart is a record with the planets'
\* longitudes, the twelve cusps and the Ascendant, or the birth data from
\* which the library computes one.
\* ------------------------------------------------------------------------
NatalPlanets == {"4000001", "4000002", "4000004", "4000005", "4000006", "4000007"}

LegacyNatalA ==
    [planetas |-> [p \in NatalPlanets |->
                     (CASE p = "4000001" -> 205 [] p = "4000002" -> 80
                        [] p = "4000004" -> 140 [] p = "4000005" -> 10
                        [] p = "4000006" -> 216 [] p = "4000007" -> 45) * Deg],
     casas |-> [h \in 1..12 |-> ((320 + 30 * (h - 1)) % 360) * Deg],
     asc_grados |-> 320 * Deg]

LegacyNatalB ==
    [planetas |-> [p \in NatalPlanets |->
                     (CASE p = "4000001" -> 12 [] p = "4000002" -> 300
                        [] p = "4000004" -> 19 [] p = "4000005" -> 127
                        [] p = "4000006" -> 250 [] p = "4000007" -> 203) * Deg],
     casas |-> [h \in 1..12 |-> ((20 + 30 * (h - 1)) % 360) * Deg],
     asc_grados |-> 20 * Deg]

BirthData == [fecha_nacimiento |-> 0, lat_nacimiento |-> 0, lon_nacimiento |-> 0]

LegacyNatals == {Some(LegacyNatalA), Some(BirthData)}

\* charts.Natal(charts.Subject(fecha, lat, lon)) for the birth data
charts_Natal(datos) == LegacyNatalB

\* EnraizamientoCalculator._es_formato_legacy(datos)
es_formato_legacy(datos) == {"planetas", "casas", "asc_grados"} \subseteq DOMAIN datos

\* EnraizamientoCalculator.__init__(datos_natales): datos_natales is kept by
\* reference; the chart cache is that same object ("alias") when the data is
\* already a chart, and empty otherwise
EnraizamientoCalculator_init(datos_natales) ==
    [carta_natal_cache |-> IF es_formato_legacy(datos_natales) THEN "alias" ELSE "None"]

\* EnraizamientoCalculator._get_carta_natal(): the chart it returns, and the
\* calculator afterwards (a computed chart is the calculator's own object)
get_carta_natal(calc, datos_natales) ==
    IF calc.carta_natal_cache = "alias" THEN datos_natales
    ELSE charts_Natal(datos_natales)

calc_after_get_carta_natal(calc) ==
    IF calc.carta_natal_cache = "None" THEN [calc EXCEPT !.carta_natal_cache = "own"]
    ELSE calc

\* the chart of the instant: EnraizamientoCalculator._get_carta_electiva
get_carta_electiva(w, momento) ==
    [asc_grados |-> swe_houses(w, to_jd(momento)).ascmc[1]]

\* EnraizamientoCalculator._asc_en_casa_natal(asc_grados, carta_A, numero_casa)
asc_en_casa_natal(asc_grados, carta_A, numero_casa) ==
    LET house_start_degree == carta_A.casas[numero_casa]
        house_end_degree == carta_A.casas[(numero_casa % 12) + 1]
    IN IF house_start_degree <= house_end_degree
       THEN house_start_degree <= asc_grados /\ asc_grados <= house_end_degree
       ELSE asc_grados >= house_start_degree \/ asc_grados <= house_end_degree

\* LegacyAstroWrapper.es_momento_critico_descalificado(): Sun-Moon conjunction
\* or opposition, Moon void of course, Moon in Capricorn or Scorpio
es_momento_critico_descalificado(w, momento) ==
    LET longs == [b \in Range(SearchBodies) |-> calc_ut(w, to_jd(momento), b)[1]]
    IN \/ mask_phase(longs[0], longs[1], 8 * Deg)
       \/ mask_void_of_course(longs[1], longs)
       \/ mask_signs(longs[1], {7, 9})

\* procesar_momento_fase1_estatico(momento, lat, lon): True when not discarded,
\* and True when the evaluation raises
momento_fails(w, momento) ==
    \/ \E b \in Range(SearchBodies) : calc_ut_fails(w, to_jd(momento), b)
    \/ swe_houses_fails(w, to_jd(momento))

procesar_momento_fase1_estatico_returns(w, momento) ==
    IF momento_fails(w, momento) THEN TRUE
    ELSE ~es_momento_critico_descalificado(w, momento)

\* the quality points of the instant (LegacyAstroWrapper evaluations), -2 .. 32
puntos_calidad(w, momento) ==
    ((calc_ut(w, to_jd(momento), 1)[1] \div Deg) % 9) * 4 - 2

\* OriginalEnraizamientoCalculator._ejecutar_23_condiciones(carta_A, carta_B):
\* the total of the blue and red points of the conditions, here those of the
\* Ascendant of the instant against the natal planets and Ascendant
puntos_enraizamiento(carta_A, carta_B) ==
    LET asc == carta_B.asc_grados
        conj(p) == mask_exact_aspect(asc, carta_A.planetas[p], 0, 8 * Deg)
    IN (IF conj("4000006") THEN 2 ELSE 0) + (IF conj("4000004") THEN 2 ELSE 0)
       + (IF conj("4000001") THEN 1 ELSE 0) + (IF conj("4000002") THEN 1 ELSE 0)
       - (IF conj("4000007") THEN 2 ELSE 0) - (IF conj("4000005") THEN 2 ELSE 0)
       + (IF mask_exact_aspect(asc, carta_A.asc_grados, 120 * Deg, 6 * Deg) THEN 1 ELSE 0)

UMBRAL_ENRAIZAMIENTO_MINIMO == 25
MAX_RESULTADOS_FINALES == 25

\* OriginalEnraizamientoCalculator.calcular_enraizamiento_original: the
\* percentage 6.25 * total_puntos + 37.5 clipped to 0 .. 100, in hundredths
porcentaje_enraizamiento(puntos_total) == Clamp(625 * puntos_total + 3750, 0, 10000)

\* the dict _procesar_momento_paralelo returns for an accepted moment:
\* calidad_score = (puntos_totales + 2) / 34 clipped to 0 .. 1, and
\* puntuacion_total = round(enraizamiento_score * 80 + calidad_score * 20, 2)
momento_data(momento, puntos_total, puntos_totales_calidad) ==
    LET porcentaje == porcentaje_enraizamiento(puntos_total)
        calidad == Clamp(puntos_totales_calidad + 2, 0, 34)
    IN [fecha_hora |-> momento,
        enraizamiento_pct |-> porcentaje,
        calidad_score |-> Pct(calidad, 34),
        puntuacion_total |-> RoundHalfEven(136 * porcentaje + 10000 * calidad, 170),
        puntos_total |-> puntos_total]

\* AlgoritmoBusqueda._procesar_momento_paralelo(momento): the moment's data,
\* or None when the moment is discarded.  Percentages are in hundredths.
procesar_momento_paralelo_returns(w, calc, datos_natales, momento) ==
    IF momento_fails(w, momento) THEN None ELSE
    LET carta_A == get_carta_natal(calc, datos_natales)
        carta_B == get_carta_electiva(w, momento)
        descartado == \/ asc_en_casa_natal(carta_B.asc_grados, carta_A, 8)
                      \/ asc_en_casa_natal(carta_B.asc_grados, carta_A, 12)
                      \/ es_momento_critico_descalificado(w, momento)
        puntos_total == puntos_enraizamiento(carta_A, carta_B)
    IN IF descartado \/ porcentaje_enraizamiento(puntos_total) < UMBRAL_ENRAIZAMIENTO_MINIMO * 100
       THEN None
       ELSE Some(momento_data(momento, puntos_total, puntos_calidad(w, momento)))

\* the grid that stops before fecha_fin
generar_momentos_fase1_exclusive(fecha_inicio, fecha_fin) ==
    IF fecha_fin <= fecha_inicio THEN << >>
    ELSE [i \in 1..((fecha_fin - fecha_inicio - 1) \div 30 + 1) |-> fecha_inicio + (i - 1) * 30]

\* AlgoritmoBusqueda._generar_momentos_fase1(fecha_inicio, fecha_fin): every
\* 30 minutes while fecha_actual <= fecha_fin
generar_momentos_fase1(fecha_inicio, fecha_fin) ==
    IF fecha_fin < fecha_inicio THEN << >>
    ELSE [i \in 1..((fecha_fin - fecha_inicio) \div 30 + 1) |-> fecha_inicio + (i - 1) * 30]

\* the sort key of Phase 2: (scc, puntuacion_total), larger first
MejorQue(a, b) ==
    a.scc > b.scc \/ (a.scc = b.scc /\ a.puntuacion_total > b.puntuacion_total)

\* the accepted results left in the order of collection
sort_reverse_unsorted(items) == items

\* list.sort(key=lambda x: (x['scc'], x['puntuacion_total']), reverse=True):
\* descending and stable
RECURSIVE sort_reverse(_)
sort_reverse(items) ==
    IF items = << >> THEN << >>
    ELSE LET first == CHOOSE i \in 1..Len(items) :
                         \A j \in 1..Len(items) :
                            \/ j = i
                            \/ MejorQue(items[i], items[j])
                            \/ (~MejorQue(items[j], items[i]) /\ i < j)
         IN <<items[first]>>
            \o sort_reverse([k \in 1..(Len(items) - 1) |->
                               IF k < first THEN items[k] ELSE items[k + 1]])

\* momento.copy() updated with the SCC fields of the moment
momento_con_scc(momento, valores_enraizamiento) ==
    LET scc_data == calcular_scc(momento.puntos_total, valores_enraizamiento)
    IN momento @@ [scc |-> scc_data.scc,
                   scc_absoluto_pct |-> scc_data.absoluto_pct,
                   scc_relativo_pct |-> scc_data.relativo_pct,
                   scc_categoria |-> scc_data.categoria,
                   scc_recomendable |-> scc_data.recomendable]

\* the values of enraizamiento of the batch
valores_enraizamiento_of(momentos) ==
    [k \in 1..Len(momentos) |-> momentos[k].puntos_total]

\* SCC applied to the accepted moments, sorted, truncated
fase_2_returns(momentos_enraizados) ==
    LET ordered == sort_reverse(
                      [k \in 1..Len(momentos_enraizados) |->
                          momento_con_scc(momentos_enraizados[k],
                                          valores_enraizamiento_of(momentos_enraizados))])
    IN SubSeq(ordered, 1, Min(Len(ordered), MAX_RESULTADOS_FINALES))

\* ------------------------------------------------------------------------
\* The legacy search as a machine: the pool of Phase 1, the threads of
\* Phase 2, each worker one step
\* ------------------------------------------------------------------------
\* a sky whose Moon stays within one degree over the window
SkyStill == [SkyA EXCEPT !.rate = [b \in AllBodies |-> 0]]

LegacyWorlds ==
    {[sky |-> s, ephFail |-> {}, houseFail |-> {}] : s \in Skies \cup {SkyStill}}
    \cup {[sky |-> SkyB, ephFail |-> {<<1, 30>>}, houseFail |-> {}]}

LegacyEnds == {-30, 0, 60, 90, 150}

\* AlgoritmoBusqueda.__init__(carta_natal_A, tema_consulta, lat, lon)
\* AlgoritmoBusqueda.__init__(carta_natal_A, tema_consulta, lat, lon): the
\* search object of session number sesion, with its own calculator
AlgoritmoBusqueda_init(carta_natal_A, sesion) ==
    [NoLegacy EXCEPT !.phase = "new",
                     !.calc = EnraizamientoCalculator_init(carta_natal_A),
                     !.sesion = sesion]

\* @lru_cache(maxsize=1000) on the method _get_carta_electiva_cached: one table
\* on the function object of the class, whose keys are (self, momento_tuple);
\* a call that raises stores nothing.  The table after the call made by the
\* calculator of session sesion for the moment; fewer than 1000 keys are
\* ever stored here, so that no key is evicted
carta_electiva_cache_after(cache, w, sesion, momento) ==
    IF momento_fails(w, momento) THEN cache
    ELSE cache \cup {[self |-> sesion, momento_tuple |-> momento]}

InitLegacy ==
    /\ world \in LegacyWorlds
    /\ natal_reference \in LegacyNatals
    /\ finder = VectorizedElectionFinder_init
    /\ pc = "absent"
    /\ call = NoCall
    /\ result = NoResult
    /\ first_answer = None
    /\ runs = 0
    /\ instances = 0
    /\ eph = NoEphCall /\ hou = NoHouCall /\ scc = NoBatch /\ fn = NoFn
    /\ carta_electiva_cache = {}
    /\ task_progress = NoTasks /\ background = NoTasks
    /\ legacy = AlgoritmoBusqueda_init(natal_reference[1], 1)

\* buscar_mejores_momentos(fecha_inicio, fecha_fin) up to the start of the
\* pool of Phase 1; a pool of zero processes raises
buscar_mejores_momentos ==
    /\ legacy.phase = "new"
    /\ \E fin \in LegacyEnds :
          LET momentos == generar_momentos_fase1(0, fin)
          IN legacy' = IF momentos = << >>
                       THEN [legacy EXCEPT !.phase = "done", !.fecha_fin = fin,
                                           !.raised = TRUE]
                       ELSE [legacy EXCEPT !.phase = "fase1", !.fecha_fin = fin,
                                           !.momentos_fase1 = momentos,
                                           !.pendientes = 1..Len(momentos)]
    /\ UNCHANGED <<world, task_progress, background, natal_reference, finder_vars, eph, hou, scc, fn, carta_electiva_cache>>

\* one process of the pool evaluates one moment
procesar_momento_fase1_estatico ==
    /\ legacy.phase = "fase1"
    /\ \E i \in legacy.pendientes :
          legacy' = [legacy EXCEPT
                        !.pendientes = @ \ {i},
                        !.aptos = IF procesar_momento_fase1_estatico_returns(
                                        world, legacy.momentos_fase1[i])
                                  THEN @ \cup {i} ELSE @]
    /\ UNCHANGED <<world, task_progress, background, natal_reference, finder_vars, eph, hou, scc, fn, carta_electiva_cache>>

\* the moments kept by Phase 1, in the order of the grid
momentos_prometedores_of(momentos_fase1, aptos) ==
    LET F[i \in 0..Len(momentos_fase1)] ==
           IF i = 0 THEN << >>
           ELSE IF i \in aptos THEN Append(F[i - 1], momentos_fase1[i]) ELSE F[i - 1]
    IN F[Len(momentos_fase1)]

\* _fase_1_filtro_basico after the pool has joined: the loop over the results
\* counts one calculation per moment of the grid; without promising moments
\* buscar_mejores_momentos returns []
fase_1_filtro_basico ==
    /\ legacy.phase = "fase1"
    /\ legacy.pendientes = {}
    /\ LET prometedores == momentos_prometedores_of(legacy.momentos_fase1, legacy.aptos)
       IN legacy' = IF prometedores = << >>
                    THEN [legacy EXCEPT !.phase = "done",
                                        !.calculos_fase_1 = @ + Len(legacy.momentos_fase1)]
                    ELSE [legacy EXCEPT !.phase = "fase2",
                                        !.calculos_fase_1 = @ + Len(legacy.momentos_fase1),
                                        !.momentos_prometedores = prometedores]
    /\ UNCHANGED <<world, task_progress, background, natal_reference, finder_vars, eph, hou, scc, fn, carta_electiva_cache>>

\* ThreadPoolExecutor(max_workers=min(4, n)): the tasks taken by a thread and
\* not yet completed
en_ejecucion(n, completados) ==
    (1..Min(n, 4 + Cardinality(completados))) \ completados

\* mutant: the worker stores the computed chart into the caller's natal data
procesar_momento_paralelo_storing_chart ==
    /\ legacy.phase = "fase2"
    /\ \E k \in en_ejecucion(Len(legacy.momentos_prometedores), legacy.completados) :
          LET resultado == procesar_momento_paralelo_returns(
                              world, legacy.calc, natal_reference[1],
                              legacy.momentos_prometedores[k])
          IN /\ legacy' = [legacy EXCEPT
                              !.completados = @ \cup {k},
                              !.calculos_fase_2 = @ + 1,
                              !.calc = calc_after_get_carta_natal(@),
                              !.momentos_enraizados =
                                  IF resultado = None THEN @ ELSE Append(@, resultado[1])]
             /\ natal_reference' = Some(get_carta_natal(legacy.calc, natal_reference[1]))
             /\ carta_electiva_cache' = carta_electiva_cache_after(
                    carta_electiva_cache, world, legacy.sesion, legacy.momentos_prometedores[k])
    /\ UNCHANGED <<world, task_progress, background, finder_vars, eph, hou, scc, fn>>

\* one thread of Phase 2 completes one moment; as_completed appends its
\* result to momentos_enraizados
procesar_momento_paralelo ==
    /\ legacy.phase = "fase2"
    /\ \E k \in en_ejecucion(Len(legacy.momentos_prometedores), legacy.completados) :
          LET resultado == procesar_momento_paralelo_returns(
                              world, legacy.calc, natal_reference[1],
                              legacy.momentos_prometedores[k])
          IN /\ legacy' = [legacy EXCEPT
                              !.completados = @ \cup {k},
                              !.calculos_fase_2 = @ + 1,
                              !.calc = calc_after_get_carta_natal(@),
                              !.momentos_enraizados =
                                  IF resultado = None THEN @ ELSE Append(@, resultado[1])]
             /\ carta_electiva_cache' = carta_electiva_cache_after(
                    carta_electiva_cache, world, legacy.sesion, legacy.momentos_prometedores[k])
    /\ UNCHANGED <<world, task_progress, background, natal_reference, finder_vars, eph, hou, scc, fn>>

\* _fase_2_enraizamiento once every future has completed: SCC, sort, truncate
fase_2_enraizamiento ==
    /\ legacy.phase = "fase2"
    /\ legacy.completados = 1..Len(legacy.momentos_prometedores)
    /\ legacy' = [legacy EXCEPT !.phase = "done",
                                !.retorno = fase_2_returns(legacy.momentos_enraizados)]
    /\ UNCHANGED <<world, task_progress, background, natal_reference, finder_vars, eph, hou, scc, fn, carta_electiva_cache>>

NextLegacy ==
    \/ buscar_mejores_momentos
    \/ procesar_momento_fase1_estatico
    \/ fase_1_filtro_basico
    \/ procesar_momento_paralelo
    \/ fase_2_enraizamiento

SpecLegacy == InitLegacy /\ [][NextLegacy]_vars

\* both searches over one natal reference: a run is of the vectorized finder,
\* or of the legacy search
InitSearch == InitFinder \/ InitLegacy

NextSearch == NextFinder \/ NextLegacy

SpecSearch == InitSearch /\ [][NextSearch]_vars

\* C9: the natal reference is never modified, neither by find_elections nor
\* by the legacy two-phase search with its parallel workers: every step of
\* either search leaves it as it was
C9_NatalReferenceNeverModified == [][natal_reference' = natal_reference]_vars

\* a legacy search that has returned after at least two Phase 2 workers
\* accepted their moments with the natal chart
C9_Witness ==
    /\ legacy.phase = "done"
    /\ Len(legacy.retorno) >= 2
    /\ Cardinality(legacy.completados) >= 2

\* a vectorized search that has returned rows scored against the natal chart
C9_WitnessVectorized ==
    /\ pc = "done"
    /\ ~result.raised
    /\ \E i \in 1..Len(result.rows) : result.rows[i].score_natal # 0

\* ------------------------------------------------------------------------
\* core/vectorized_logic.py called directly: the essential state of a body
\* ------------------------------------------------------------------------
\* the rest of the state while a library function is called directly
IdleOthers ==
    /\ world \in {[sky |-> SkyA, ephFail |-> {}, houseFail |-> {}]}
    /\ natal_reference = None
    /\ IdleFinder
    /\ eph = NoEphCall /\ hou = NoHouCall /\ scc = NoBatch /\ legacy = NoLegacy
    /\ carta_electiva_cache = {}
    /\ task_progress = NoTasks /\ background = NoTasks

\* the longitudes of the calls: the start, the second unit, the middle and
\* the last unit of every sign
SignLongitudes ==
    {s * SignWidth + d : s \in Signs, d \in {0, 1, SignWidth \div 2, SignWidth - 1}}

InitLogic ==
    /\ IdleOthers
    /\ \E planet_id \in Planets, lon \in SignLongitudes :
          fn = [op |-> "logic", logic |-> VectorizedLogic_init,
                planet_id |-> planet_id, longitudes |-> lon,
                dignity |-> None, debility |-> None]

\* logic.mask_dignity(planet_id, longitudes)
VectorizedLogic_mask_dignity ==
    /\ fn.op = "logic"
    /\ fn.dignity = None
    /\ fn' = [fn EXCEPT !.dignity = Some(mask_dignity(fn.logic, fn.planet_id, fn.longitudes))]
    /\ UNCHANGED <<world, task_progress, background, natal_reference, finder_vars, eph, hou, scc, legacy, carta_electiva_cache>>

\* logic.mask_debility(planet_id, longitudes)
VectorizedLogic_mask_debility ==
    /\ fn.op = "logic"
    /\ fn.debility = None
    /\ fn' = [fn EXCEPT !.debility = Some(mask_debility(fn.logic, fn.planet_id, fn.longitudes))]
    /\ UNCHANGED <<world, task_progress, background, natal_reference, finder_vars, eph, hou, scc, legacy, carta_electiva_cache>>

NextLogic == VectorizedLogic_mask_dignity \/ VectorizedLogic_mask_debility

SpecLogic == InitLogic /\ [][NextLogic]_vars

\* C11: for every body Sun..Saturn and every longitude, mask_dignity and
\* mask_debility are never both true
C11_DignityDebilityDisjoint ==
    (fn.op = "logic" /\ fn.dignity # None /\ fn.debility # None)
        => ~(fn.dignity[1] /\ fn.debility[1])

\* both masks computed for a body in its fall (debility true, dignity false)
C11_Witness ==
    /\ fn.op = "logic" /\ fn.dignity # None /\ fn.debility # None
    /\ fn.debility[1] /\ ~fn.dignity[1]
    /\ get_sign_indices(fn.longitudes) = fn.logic.FALL_MAP[fn.planet_id]

\* both masks computed for a body in a sign it rules (dignity true)
C11_WitnessDignity ==
    /\ fn.op = "logic" /\ fn.dignity # None /\ fn.debility # None
    /\ fn.dignity[1] /\ ~fn.debility[1]

\* ------------------------------------------------------------------------
\* core/astro_config.py and core/vectorized_natal.py : hard aspects of the
\* transiting malefics to the natal lights
\* ------------------------------------------------------------------------
ORB_ASPECTS ==
    [CONJUNCTION |-> 8 * Deg, OPPOSITION |-> 8 * Deg, TRINE |-> 8 * Deg,
     SQUARE |-> 8 * Deg, SEXTILE |-> 6 * Deg]

\* AstroConfig.get_orb(aspect_angle), the angle in whole degrees
get_orb(aspect_angle) ==
    CASE aspect_angle = 0 -> ORB_ASPECTS.CONJUNCTION
      [] aspect_angle = 180 -> ORB_ASPECTS.OPPOSITION
      [] aspect_angle = 120 -> ORB_ASPECTS.TRINE
      [] aspect_angle = 90 -> ORB_ASPECTS.SQUARE
      [] aspect_angle = 60 -> ORB_ASPECTS.SEXTILE
      [] OTHER -> 1 * Deg

\* VectorizedNatal.calculate_aspects_transit_to_natal for one instant
calculate_aspects_transit_to_natal(transit_long, natal_long) ==
    LET diff == Abs(transit_long - natal_long)
    IN Min(diff, Circle - diff)

\* mutant: the orb is exclusive
mask_transiting_aspect_exclusive_orb(transit_long, natal_long, aspect_angle, orb) ==
    Abs(calculate_aspects_transit_to_natal(transit_long, natal_long) - aspect_angle * Deg) < orb

\* VectorizedNatal.mask_transiting_aspect for one instant
mask_transiting_aspect(transit_long, natal_long, aspect_angle, orb) ==
    Abs(calculate_aspects_transit_to_natal(transit_long, natal_long) - aspect_angle * Deg) <= orb

\* hard_angles after the append, and the lights
hard_angles == <<90, 180, 0>>
lights == <<0, 1>>

\* VectorizedNatal.mask_hard_aspects_to_natal_lights(transits, natal_chart,
\* malefics): next(iter(...)) of an empty dict raises
mask_hard_aspects_to_natal_lights(transits, natal_chart, malefics) ==
    IF DOMAIN transits = {} THEN Raised
    ELSE LET first_body == CHOOSE b \in DOMAIN transits : \A c \in DOMAIN transits : b <= c
             n_points == Len(transits[first_body])
         IN Returned(
              [i \in 1..n_points |->
                 \E m \in 1..Len(malefics), l \in 1..Len(lights), a \in 1..Len(hard_angles) :
                    /\ malefics[m] \in DOMAIN transits
                    /\ lights[l] \in DOMAIN natal_chart
                    /\ mask_transiting_aspect(transits[malefics[m]][i],
                                              natal_chart[lights[l]],
                                              hard_angles[a], get_orb(hard_angles[a]))])

\* the transits of a direct call: arrays of two instants over the
\* longitudes around the orbs of the three hard angles
SweepLongitudes ==
    {345 * Deg, 352 * Deg - 1, 352 * Deg, 0, 8 * Deg, 8 * Deg + 1, 15 * Deg,
     82 * Deg - 1, 82 * Deg, 98 * Deg, 98 * Deg + 1, 172 * Deg, 188 * Deg, 188 * Deg + 1,
     270 * Deg, 262 * Deg - 1}

SweepArrays == {<<a, b>> : a, b \in SweepLongitudes}

SaturnSweep == <<345 * Deg, 352 * Deg - 1, 352 * Deg, 0, 8 * Deg, 8 * Deg + 1, 15 * Deg>>

TransitDicts ==
    {(6 :> arr) : arr \in SweepArrays}
    \cup {(4 :> arr) : arr \in SweepArrays}
    \cup {(4 :> <<90 * Deg, 200 * Deg>>) @@ (6 :> arr) : arr \in SweepArrays}
    \cup {(5 :> arr) : arr \in {<<0, 90 * Deg>>}}
    \cup {(6 :> SaturnSweep), << >>}

NatalLights ==
    {(0 :> 0), (0 :> 0) @@ (1 :> 100 * Deg), (1 :> 100 * Deg), (3 :> 0), << >>}

MaleficLists == {<<4, 6>>, <<6>>}

InitNatal ==
    /\ IdleOthers
    /\ \E transits \in TransitDicts, natal_chart \in NatalLights, malefics \in MaleficLists :
          fn = [op |-> "natal", transits |-> transits, natal_chart |-> natal_chart,
                malefics |-> malefics, called |-> FALSE, out |-> Raised]

VectorizedNatal_mask_hard_aspects_to_natal_lights ==
    /\ fn.op = "natal"
    /\ ~fn.called
    /\ fn' = [fn EXCEPT !.called = TRUE,
                        !.out = mask_hard_aspects_to_natal_lights(
                                   fn.transits, fn.natal_chart, fn.malefics)]
    /\ UNCHANGED <<world, task_progress, background, natal_reference, finder_vars, eph, hou, scc, legacy, carta_electiva_cache>>

NextNatal == VectorizedNatal_mask_hard_aspects_to_natal_lights

SpecNatal == InitNatal /\ [][NextNatal]_vars

\* the minimal circular separation of two longitudes
CircularSeparation(a, b) ==
    LET d == (a - b) % Circle
    IN IF 2 * d <= Circle THEN d ELSE Circle - d

\* C12: the mask is true at an instant iff some configured malefic's
\* transiting longitude has a minimal circular separation from the natal Sun
\* or Moon within 8 degrees of 0, 90 or 180 degrees; with only a natal Sun at
\* 0 and Saturn between 345 and 15 degrees it is true exactly for
\* separations of at most 8 degrees
C12_HardAspectsToNatalLights ==
    (fn.op = "natal" /\ fn.called /\ ~fn.out.raised) =>
        /\ \A i \in 1..Len(fn.out.value) :
              fn.out.value[i] <=>
                 \E m \in Range(fn.malefics) \cap DOMAIN fn.transits,
                    l \in {0, 1} \cap DOMAIN fn.natal_chart,
                    angle \in {0, 90, 180} :
                    Abs(CircularSeparation(fn.transits[m][i], fn.natal_chart[l])
                        - angle * Deg) <= 8 * Deg
        /\ (fn.natal_chart = (0 :> 0) /\ fn.transits = (6 :> SaturnSweep)) =>
              \A i \in 1..Len(fn.out.value) :
                 fn.out.value[i] <=> CircularSeparation(SaturnSweep[i], 0) <= 8 * Deg

\* the sweep of Saturn over a natal Sun at 0: true at 8.00, false at 8.01
C12_Witness ==
    /\ fn.op = "natal" /\ fn.called /\ ~fn.out.raised
    /\ fn.natal_chart = (0 :> 0) /\ fn.transits = (6 :> SaturnSweep)
    /\ fn.out.value[5] /\ ~fn.out.value[6]
    /\ fn.out.value[3] /\ ~fn.out.value[2]

\* a square of Mars to the natal Moon alone makes the mask true
C12_WitnessSquare ==
    /\ fn.op = "natal" /\ fn.called /\ ~fn.out.raised
    /\ DOMAIN fn.transits = {4} /\ DOMAIN fn.natal_chart = {1}
    /\ \E i \in 1..Len(fn.out.value) :
          /\ fn.out.value[i]
          /\ CircularSeparation(fn.transits[4][i], fn.natal_chart[1]) > 80 * Deg

\* ------------------------------------------------------------------------
\* utils/scc_calculator.py called directly: calcular_scc of one candidate
\* ------------------------------------------------------------------------
ReferenceValues == {-7, -3, 0, 3, 11}

InitCalcularSCC ==
    /\ IdleOthers
    /\ \E puntos \in -7..11,
          valores \in {<< >>} \cup {<<x>> : x \in ReferenceValues}
                      \cup {<<x, y>> : x, y \in ReferenceValues} :
          fn = [op |-> "calcular_scc", enraizamiento_puntos |-> puntos,
                valores_referencia |-> valores, called |-> FALSE,
                out |-> [scc |-> 0, absoluto_pct |-> 0, relativo_pct |-> 0,
                         recomendable |-> FALSE, categoria |-> ""]]

SCC_Calculator_calcular_scc ==
    /\ fn.op = "calcular_scc"
    /\ ~fn.called
    /\ fn' = [fn EXCEPT !.called = TRUE,
                        !.out = calcular_scc(fn.enraizamiento_puntos, fn.valores_referencia)]
    /\ UNCHANGED <<world, task_progress, background, natal_reference, finder_vars, eph, hou, scc, legacy, carta_electiva_cache>>

NextCalcularSCC == SCC_Calculator_calcular_scc

SpecCalcularSCC == InitCalcularSCC /\ [][NextCalcularSCC]_vars

\* the components of the candidate of the call, and ten times its blended
\* score as the fraction num / den of a percent
AbsolutoOfCall == calcular_componente_absoluto(fn.enraizamiento_puntos)
RelativoOfCall == relativo_pct_of(fn.enraizamiento_puntos, fn.valores_referencia)
BlendNum ==
    100 * (8 * AbsolutoOfCall.num * RelativoOfCall.den
           + 2 * RelativoOfCall.num * AbsolutoOfCall.den)
BlendDen == 10 * AbsolutoOfCall.den * RelativoOfCall.den

\* C13: the contextual score is 0.8 * absolute_pct + 0.2 * relative_pct; a
\* candidate whose blended score is below 40 is not recommended and in
\* category NO RECOMENDABLE whatever its rank in the batch; a candidate at or
\* above 40 is recommended
C13_BlendAndThreshold ==
    (fn.op = "calcular_scc" /\ fn.called) =>
        /\ fn.out.scc = RoundHalfEven(10 * BlendNum, BlendDen)
        /\ BlendNum < 40 * BlendDen =>
              ~fn.out.recomendable /\ fn.out.categoria = "NO RECOMENDABLE"
        /\ BlendNum >= 40 * BlendDen => fn.out.recomendable

\* a candidate at the top of its batch that is not recommended
C13_Witness ==
    /\ fn.op = "calcular_scc" /\ fn.called
    /\ Len(fn.valores_referencia) = 2
    /\ \A k \in 1..2 : fn.valores_referencia[k] <= fn.enraizamiento_puntos
    /\ \E k \in 1..2 : fn.valores_referencia[k] = fn.enraizamiento_puntos
    /\ ~fn.out.recomendable

\* a candidate at the bottom of its batch that is recommended
C13_WitnessRecommended ==
    /\ fn.op = "calcular_scc" /\ fn.called
    /\ Len(fn.valores_referencia) = 2
    /\ \A k \in 1..2 : fn.valores_referencia[k] >= fn.enraizamiento_puntos
    /\ fn.out.recomendable

\* the tier of a blended score by the bands alone
TierOfBlend ==
    IF BlendNum >= 75 * BlendDen THEN "EXCEPCIONAL"
    ELSE IF BlendNum >= 65 * BlendDen THEN "SOBRE PROMEDIO"
    ELSE IF BlendNum >= 50 * BlendDen THEN "PROMEDIO"
    ELSE IF BlendNum >= 40 * BlendDen THEN "DEBAJO PROMEDIO"
    ELSE "LIMITADO"

\* C14: calcular_scc labels every candidate with the tier of its blended
\* score alone: exceptional at 75 or more, above average at 65 or more,
\* average at 50 or more, below average at 40 or more, limited below 40
C14_FiveTiersByBand ==
    (fn.op = "calcular_scc" /\ fn.called) => fn.out.categoria = TierOfBlend

\* C14, the part the code satisfies: at or above 40 the label is the tier of
\* the band, and the label LIMITADO is never produced
C14_TiersAboveThresholdOnly ==
    (fn.op = "calcular_scc" /\ fn.called) =>
        /\ BlendNum >= 40 * BlendDen => fn.out.categoria = TierOfBlend
        /\ fn.out.categoria # "LIMITADO"

\* every label the code produces is produced
C14_WitnessExcepcional == fn.op = "calcular_scc" /\ fn.called /\ fn.out.categoria = "EXCEPCIONAL"
C14_WitnessSobrePromedio == fn.op = "calcular_scc" /\ fn.called /\ fn.out.categoria = "SOBRE PROMEDIO"
C14_WitnessPromedio == fn.op = "calcular_scc" /\ fn.called /\ fn.out.categoria = "PROMEDIO"
C14_WitnessDebajoPromedio == fn.op = "calcular_scc" /\ fn.called /\ fn.out.categoria = "DEBAJO PROMEDIO"

\* the accepted results of Phase 2 in the order of submission
RECURSIVE enraizados_en_orden(_, _, _, _)
enraizados_en_orden(w, calc, datos_natales, momentos) ==
    IF momentos = << >> THEN << >>
    ELSE LET resultado == procesar_momento_paralelo_returns(w, calc, datos_natales, momentos[1])
         IN (IF resultado = None THEN << >> ELSE <<resultado[1]>>)
            \o enraizados_en_orden(w, calc_after_get_carta_natal(calc), datos_natales,
                                   Tail(momentos))

\* C16: the list the legacy search returns does not depend on the completion
\* order of the Phase 2 workers: whatever the interleaving, it is the list
\* returned when the workers complete in the order of submission
C16_ReturnIndependentOfCompletionOrder ==
    (legacy.phase = "done" /\ ~legacy.raised /\ legacy.momentos_prometedores # << >>) =>
        legacy.retorno =
            fase_2_returns(enraizados_en_orden(world, EnraizamientoCalculator_init(natal_reference[1]),
                                               natal_reference[1], legacy.momentos_prometedores))

\* ------------------------------------------------------------------------
\* The tail of _fase_2_enraizamiento called on a collected list: SCC,
\* sort, truncation
\* ------------------------------------------------------------------------
MaxEnraizados == 27

EnraizadosLengths == (0..3) \cup ((MAX_RESULTADOS_FINALES - 1)..MaxEnraizados)

\* a collected list of n accepted results: enraizamiento points within
\* -2 .. 2 (25% .. 50%, at or over the threshold) and quality points by patterns
EnraizadosList(n, a, b, c) ==
    [k \in 1..n |-> momento_data(30 * k, ((k * a + b) % 5) - 2, ((k * c) % 4) * 3)]

EnraizadosLists ==
    {EnraizadosList(n, a, b, c) : n \in EnraizadosLengths, a \in 0..2, b \in 0..4, c \in {0, 1, 3}}

InitFase2 ==
    /\ IdleOthers
    /\ \E momentos \in EnraizadosLists :
          fn = [op |-> "fase_2_enraizamiento", momentos_enraizados |-> momentos,
                called |-> FALSE, out |-> << >>]

AlgoritmoBusqueda_fase_2_tail ==
    /\ fn.op = "fase_2_enraizamiento"
    /\ ~fn.called
    /\ fn' = [fn EXCEPT !.called = TRUE, !.out = fase_2_returns(fn.momentos_enraizados)]
    /\ UNCHANGED <<world, task_progress, background, natal_reference, finder_vars, eph, hou, scc, legacy, carta_electiva_cache>>

NextFase2 == AlgoritmoBusqueda_fase_2_tail

SpecFase2 == InitFase2 /\ [][NextFase2]_vars

\* the accepted results with their SCC fields, in the order of collection
Fase2ConSCC ==
    [k \in 1..Len(fn.momentos_enraizados) |->
        momento_con_scc(fn.momentos_enraizados[k],
                        valores_enraizamiento_of(fn.momentos_enraizados))]

\* C15: the list Phase 2 returns is the first min(MAX_RESULTADOS_FINALES, n)
\* of the n accepted results in descending order of (scc, puntuacion_total):
\* its results are distinct accepted results, consecutive results have a
\* non-increasing key, and no omitted result has a key greater than a
\* returned one
C15_TopResultsDescending ==
    (fn.op = "fase_2_enraizamiento" /\ fn.called) =>
        LET todos == Fase2ConSCC
            n == Len(todos)
            out == fn.out
            devueltos == {out[i] : i \in 1..Len(out)}
            omitidos == {todos[k] : k \in 1..n} \ devueltos
        IN /\ Len(out) = Min(MAX_RESULTADOS_FINALES, n)
           /\ devueltos \subseteq {todos[k] : k \in 1..n}
           /\ Cardinality(devueltos) = Len(out)
           /\ \A i \in 1..(Len(out) - 1) : ~MejorQue(out[i + 1], out[i])
           /\ \A x \in omitidos : \A y \in devueltos : ~MejorQue(x, y)

\* more accepted results than the limit, with different and with equal
\* keys: the list is cut at the limit
C15_Witness ==
    /\ fn.op = "fase_2_enraizamiento" /\ fn.called
    /\ Len(fn.momentos_enraizados) > MAX_RESULTADOS_FINALES
    /\ Len(fn.out) = MAX_RESULTADOS_FINALES
    /\ \E i, j \in 1..Len(fn.out) : MejorQue(fn.out[i], fn.out[j])
    /\ \E i, j \in 1..Len(fn.out) :
          i # j /\ ~MejorQue(fn.out[i], fn.out[j]) /\ ~MejorQue(fn.out[j], fn.out[i])
    /\ fn.out # SubSeq(Fase2ConSCC, 1, MAX_RESULTADOS_FINALES)

\* fewer accepted results than the limit: all of them are returned
C15_WitnessShort ==
    /\ fn.op = "fase_2_enraizamiento" /\ fn.called
    /\ Len(fn.momentos_enraizados) = 3
    /\ Len(fn.out) = 3
    /\ fn.out # Fase2ConSCC

\* ------------------------------------------------------------------------
\* Claims about the score components of the rows of find_elections
\* ------------------------------------------------------------------------
\* what the providers give find_elections for the instant t of the grid
LongsAt(t) ==
    LET longitudes == get_longitudes(calculate_positions(world, <<t>>, Some(SearchBodies)).value)
    IN [b \in DOMAIN longitudes |-> longitudes[b][1]]

CuspsAt(t) == calculate_houses(world, <<t>>).value.cusps[1]

AscmcAt(t) == calculate_houses(world, <<t>>).value.ascmc[1]

\* details.get(name, 0) over the non-zero components of a row
ComponentOf(row, name) ==
    IF name \in DOMAIN row.components THEN row.components[name] ELSE 0

\* C17: in a search whose natal reference has its Ascendant (key 12) in
\* Capricorn or Aquarius no row carries a Saturn penalty (topic house or
\* Ascendant house), and with the natal Ascendant in Aries or Scorpio no row
\* carries a Mars penalty
C17_RuledAscendantSkipsMaleficPenalties ==
    (Returned_rows /\ natal_reference # None /\ 12 \in DOMAIN natal_reference[1]) =>
        LET natal_asc_sign == get_sign_indices(natal_reference[1][12])
        IN \A i \in 1..Len(result.rows) :
              /\ natal_asc_sign \in {CAPRICORN, AQUARIUS} =>
                    /\ ComponentOf(result.rows[i], "comb_neg_saturn_h10") = 0
                    /\ ComponentOf(result.rows[i], "comb_neg_saturn_asc") = 0
              /\ natal_asc_sign \in {ARIES, SCORPIO} =>
                    /\ ComponentOf(result.rows[i], "comb_neg_mars_h10") = 0
                    /\ ComponentOf(result.rows[i], "comb_neg_mars_asc") = 0

\* points in halves: +2, +1, +1 for the conjunction, trine and sextile of the
\* search Ascendant to a natal position, within the orb of 5 degrees
NatalLinkagePoints(asc, nat_pos) ==
    (IF mask_exact_aspect(asc, nat_pos, 0, 5 * Deg) THEN 4 ELSE 0)
    + (IF mask_exact_aspect(asc, nat_pos, 120 * Deg, 5 * Deg) THEN 2 ELSE 0)
    + (IF mask_exact_aspect(asc, nat_pos, 60 * Deg, 5 * Deg) THEN 2 ELSE 0)

NatalLinkageName(pid) ==
    CASE pid = 0 -> "natal_asc_sun" [] pid = 1 -> "natal_asc_moon"
      [] pid = 3 -> "natal_asc_ven" [] pid = 5 -> "natal_asc_jup"

\* C18: for each of natal Sun, Moon, Venus and Jupiter present in the natal
\* reference, the search Ascendant within orb of a conjunction to it gives
\* +2, of a trine +1 and of a sextile +1 to the natal score of the instant
C18_NatalLinkagePoints ==
    (Returned_rows /\ natal_reference # None) =>
        \A i \in 1..Len(result.rows) :
            \A pid \in {0, 1, 3, 5} \cap DOMAIN natal_reference[1] :
                ComponentOf(result.rows[i], NatalLinkageName(pid)) =
                    NatalLinkagePoints(AscmcAt(result.rows[i].timestamp)[1],
                                       natal_reference[1][pid])

\* C19: the topic house components of a row are evaluated against the house
\* of the topic: +2 for Sun, Jupiter, Moon in the interval from the cusp
\* target_house to the next cusp, -1 for Saturn or Mars in it, and the
\* Moon's +2 aspects to the ruler of the sign on the cusp target_house
C19_TopicHouseComponents ==
    Returned_rows =>
        \A i \in 1..Len(result.rows) :
            LET row == result.rows[i]
                longs == LongsAt(row.timestamp)
                cusps == CuspsAt(row.timestamp)
                h_idx == result.target_house - 1
                ruler == get_ruler_for_sign(finder.logic, get_sign_indices(cusps[result.target_house]))
                in_topic(pid) == in_house(longs[pid], cusps, h_idx)
            IN /\ ComponentOf(row, "comb_pos_sun_h10") = (IF in_topic(0) THEN 4 ELSE 0)
               /\ ComponentOf(row, "comb_pos_jup_h10") = (IF in_topic(5) THEN 4 ELSE 0)
               /\ ComponentOf(row, "comb_pos_moon_h10") = (IF in_topic(1) THEN 4 ELSE 0)
               /\ ComponentOf(row, "comb_neg_saturn_h10") = (IF in_topic(6) THEN 0 - 2 ELSE 0)
               /\ ComponentOf(row, "comb_neg_mars_h10") = (IF in_topic(4) THEN 0 - 2 ELSE 0)
               /\ ComponentOf(row, "moon_aspect_ruler_h10") =
                     soft_aspect_points(longs[1], longs[ruler], 4)

\* ------------------------------------------------------------------------
\* Sessions of the legacy search in one process: a search object per
\* session, each over its own natal reference
\* ------------------------------------------------------------------------
MaxSesiones == 2

\* a later session: AlgoritmoBusqueda(carta_natal_A, ...) over a different
\* natal reference, once the search of the session before has returned and
\* its search object has been dropped
nueva_sesion ==
    /\ legacy.phase = "done"
    /\ legacy.sesion < MaxSesiones
    /\ \E carta_natal_A \in LegacyNatals \ {natal_reference} :
          /\ natal_reference' = carta_natal_A
          /\ legacy' = AlgoritmoBusqueda_init(carta_natal_A[1], legacy.sesion + 1)
    /\ UNCHANGED <<world, task_progress, background, finder_vars, eph, hou, scc, fn, carta_electiva_cache>>

InitSesiones == InitLegacy /\ world.ephFail = {} /\ world.sky \in {SkyA, SkyStill}

NextSesiones == NextLegacy \/ nueva_sesion

SpecSesiones == InitSesiones /\ [][NextSesiones]_vars

\* C20: the chart cache keyed by the instant and the place is scoped to one
\* session: every entry it holds was created by the calculator of the
\* current session, no entry of an ended session is retained once a later
\* session over a different natal reference exists
C20_CacheSessionScoped ==
    \A entry \in carta_electiva_cache : entry.self = legacy.sesion

SpeedsAt(t) ==
    LET speeds == get_speeds(calculate_positions(world, <<t>>, Some(SearchBodies)).value)
    IN [b \in DOMAIN speeds |-> speeds[b][1]]

\* everything find_elections computes for the instant of a returned row
EvalOfRow(row) ==
    eval_instant(finder.logic,
                 IF natal_reference = None THEN EmptyChart ELSE natal_reference[1],
                 result.target_house, row.timestamp, LongsAt(row.timestamp),
                 SpeedsAt(row.timestamp), CuspsAt(row.timestamp), AscmcAt(row.timestamp))

\* the <<name, value>> pairs of the five groups, one after the other
AllPairs(groups) == groups[1] \o groups[2] \o groups[3] \o groups[4] \o groups[5]

SumOver(f) ==
    LET RECURSIVE go(_)
        go(Q) == IF Q = {} THEN 0
                 ELSE LET k == CHOOSE x \in Q : TRUE IN f[k] + go(Q \ {k})
    IN go(DOMAIN f)

\* C21: in every row score_total is the sum of the five group scores and
\* also score_positive + score_negative, the sums of the positive and of the
\* negative parts of all named components; the component names of the five
\* groups are all distinct, so that merging the maps overwrites nothing
C21_TotalsAndDistinctComponents ==
    Returned_rows =>
        \A i \in 1..Len(result.rows) :
            LET row == result.rows[i]
                pairs == AllPairs(EvalOfRow(row).groups)
            IN /\ row.score_total = row.score_moon + row.score_r_asc + row.score_r_h10
                                    + row.score_natal + row.score_comb
               /\ row.score_total = row.score_positive + row.score_negative
               /\ row.score_positive = SumOver([k \in 1..Len(pairs) |-> Max(pairs[k][2], 0)])
               /\ row.score_negative = SumOver([k \in 1..Len(pairs) |-> Min(pairs[k][2], 0)])
               /\ \A a, b \in 1..Len(pairs) : a # b => pairs[a][1] # pairs[b][1]
               /\ {pairs[k][1] : k \in {j \in 1..Len(pairs) : pairs[j][2] # 0}}
                     = DOMAIN row.components

\* a row with positive and negative components from several groups
C21_Witness ==
    /\ Returned_rows
    /\ \E i \in 1..Len(result.rows) :
          /\ result.rows[i].score_negative < 0
          /\ result.rows[i].score_positive > 0
          /\ result.rows[i].score_natal # 0
          /\ result.rows[i].score_comb # 0
          /\ result.rows[i].score_moon # 0

\* ------------------------------------------------------------------------
\* VectorizedLogic.mask_void_of_course called on one instant
\* ------------------------------------------------------------------------
VocMoonLongitudes ==
    {0, 1 * Deg, 14 * Deg + 50, 27 * Deg, 29 * Deg + 99, 30 * Deg, 58 * Deg, 119 * Deg,
     208 * Deg + 1, 269 * Deg + 99, 299 * Deg, 359 * Deg + 99}

VocBodySets == {{0, 1, 2, 3, 4, 5, 6, 10}, {0, 1, 10}, {1, 10}, {1, 4, 6}, {}}

\* the longitudes of the bodies present: the Moon (1) at the Moon's
\* longitude, the others spread from a base
VocPositions(moon_lon, present, base, step) ==
    [b \in present |-> IF b = 1 THEN moon_lon ELSE ((base + step * b) % 360) * Deg]

InitVoc ==
    /\ IdleOthers
    /\ \E moon_lon \in VocMoonLongitudes, present \in VocBodySets,
          base \in {0, 3, 31, 95, 200}, step \in {0, 7, 61} :
          fn = [op |-> "mask_void_of_course", moon_longs |-> moon_lon,
                planet_positions |-> VocPositions(moon_lon, present, base, step),
                called |-> FALSE, out |-> FALSE]

VectorizedLogic_mask_void_of_course ==
    /\ fn.op = "mask_void_of_course"
    /\ ~fn.called
    /\ fn' = [fn EXCEPT !.called = TRUE,
                        !.out = mask_void_of_course(fn.moon_longs, fn.planet_positions)]
    /\ UNCHANGED <<world, task_progress, background, natal_reference, finder_vars, eph, hou, scc, legacy,
                   carta_electiva_cache>>

NextVoc == VectorizedLogic_mask_void_of_course

SpecVoc == InitVoc /\ [][NextVoc]_vars

\* the distance forward along the zodiac from one longitude to another
ForwardDistance(from, to) == (to - from) % Circle

\* the degrees left before the Moon enters the next sign
DegreesToIngress(moon_lon) == 30 * Deg - (moon_lon % (30 * Deg))

\* C24: the Moon is marked void of course exactly when, for every body of
\* Sun, Mercury, Venus, Mars, Jupiter, Saturn that is present and every angle
\* of 0, 60, 90, 120, 180, the forward distance from the Moon to body + angle
\* and to body - angle is at least the degrees left before the next sign; the
\* Moon itself and the node are not considered
C24_VoidOfCourse ==
    (fn.op = "mask_void_of_course" /\ fn.called) =>
        (fn.out <=>
            \A pid \in {0, 2, 3, 4, 5, 6} \cap DOMAIN fn.planet_positions :
                \A angle \in {0, 60, 90, 120, 180} :
                    /\ ForwardDistance(fn.moon_longs,
                                       (fn.planet_positions[pid] + angle * Deg) % Circle)
                          >= DegreesToIngress(fn.moon_longs)
                    /\ ForwardDistance(fn.moon_longs,
                                       (fn.planet_positions[pid] - angle * Deg) % Circle)
                          >= DegreesToIngress(fn.moon_longs))

\* void of course with the six bodies, the Moon and the node present
C24_Witness ==
    /\ fn.op = "mask_void_of_course" /\ fn.called /\ fn.out
    /\ DOMAIN fn.planet_positions = {0, 1, 2, 3, 4, 5, 6, 10}

\* not void of course: an aspect point lies before the end of the sign
C24_WitnessAspectAhead ==
    /\ fn.op = "mask_void_of_course" /\ fn.called /\ ~fn.out
    /\ DOMAIN fn.planet_positions = {0, 1, 2, 3, 4, 5, 6, 10}

\* ------------------------------------------------------------------------
\* Claims about the rejection decision of find_elections
\* ------------------------------------------------------------------------
\* the ruler of the sign on the cusp of the topic house at the instant t
TopicRulerAt(t) ==
    get_ruler_for_sign(finder.logic, get_sign_indices(CuspsAt(t)[result.target_house]))

\* a longitude within 5 degrees of one of the four angles of the instant t
OnAngleAt(lon, t) ==
    LET asc == AscmcAt(t)[1]
        mc == AscmcAt(t)[2]
    IN \E angle \in {asc, mc, (asc + 180 * Deg) % Circle, (mc + 180 * Deg) % Circle} :
          CircularSeparation(lon, angle) <= 5 * Deg

\* the rejection reasons of the instant t
MoonInScorpioOrCapricornAt(t) == LongsAt(t)[1] \div SignWidth \in {SCORPIO, CAPRICORN}

NewOrFullMoonAt(t) ==
    LET separation == CircularSeparation(LongsAt(t)[0], LongsAt(t)[1])
    IN separation <= 8 * Deg \/ Abs(separation - 180 * Deg) <= 8 * Deg

VoidOfCourseAt(t) == mask_void_of_course(LongsAt(t)[1], LongsAt(t))

TopicRulerWeakAt(t) ==
    \/ mask_debility(finder.logic, TopicRulerAt(t), LongsAt(t)[TopicRulerAt(t)])
    \/ SpeedsAt(t)[TopicRulerAt(t)] < 0

MaleficOnAngleAt(t) == OnAngleAt(LongsAt(t)[4], t) \/ OnAngleAt(LongsAt(t)[6], t)

\* C22: is_valid is False at an instant exactly when the Moon is in Scorpio or
\* Capricorn, or the Sun-Moon separation is within 8 degrees of 0 or 180, or
\* the Moon is void of course, or the ruler of the sign on the topic house
\* cusp is in detriment or fall or has negative speed, or Mars or Saturn is
\* within 5 degrees of the Ascendant, Midheaven, Descendant or Imum Coeli
C22_RejectionReasons ==
    Returned_rows =>
        /\ \A i \in 1..Len(result.rows) :
              LET t == result.rows[i].timestamp
              IN ~result.rows[i].is_valid <=>
                    \/ MoonInScorpioOrCapricornAt(t)
                    \/ NewOrFullMoonAt(t)
                    \/ VoidOfCourseAt(t)
                    \/ TopicRulerWeakAt(t)
                    \/ MaleficOnAngleAt(t)
        /\ ~call.return_all =>
              \A i \in 1..Len(result.grid) :
                 LET t == result.grid[i]
                 IN (\E k \in 1..Len(result.rows) : result.rows[k].timestamp = t) <=>
                       ~(\/ MoonInScorpioOrCapricornAt(t)
                         \/ NewOrFullMoonAt(t)
                         \/ VoidOfCourseAt(t)
                         \/ TopicRulerWeakAt(t)
                         \/ MaleficOnAngleAt(t))

\* the instant t is rejected for that one reason alone
OnlyReasonAt(t, reasons) ==
    <<MoonInScorpioOrCapricornAt(t), NewOrFullMoonAt(t), VoidOfCourseAt(t),
      TopicRulerWeakAt(t), MaleficOnAngleAt(t)>> = reasons

\* a row rejected for Mars or Saturn on an angle alone
C22_Witness ==
    /\ Returned_rows /\ call.return_all
    /\ \E i \in 1..Len(result.rows) :
          /\ ~result.rows[i].is_valid
          /\ OnlyReasonAt(result.rows[i].timestamp, <<FALSE, FALSE, FALSE, FALSE, TRUE>>)

\* a row rejected for the sign of the Moon alone
C22_WitnessMoonSign ==
    /\ Returned_rows /\ call.return_all
    /\ \E i \in 1..Len(result.rows) :
          /\ ~result.rows[i].is_valid
          /\ OnlyReasonAt(result.rows[i].timestamp, <<TRUE, FALSE, FALSE, FALSE, FALSE>>)

\* a row rejected for the phase of the Moon alone
C22_WitnessPhase ==
    /\ Returned_rows /\ call.return_all
    /\ \E i \in 1..Len(result.rows) :
          /\ ~result.rows[i].is_valid
          /\ OnlyReasonAt(result.rows[i].timestamp, <<FALSE, TRUE, FALSE, FALSE, FALSE>>)

\* a row rejected for the void of course Moon alone
C22_WitnessVoid ==
    /\ Returned_rows /\ call.return_all
    /\ \E i \in 1..Len(result.rows) :
          /\ ~result.rows[i].is_valid
          /\ OnlyReasonAt(result.rows[i].timestamp, <<FALSE, FALSE, TRUE, FALSE, FALSE>>)

\* a row rejected for the ruler of the topic house alone
C22_WitnessRuler ==
    /\ Returned_rows /\ call.return_all
    /\ \E i \in 1..Len(result.rows) :
          /\ ~result.rows[i].is_valid
          /\ OnlyReasonAt(result.rows[i].timestamp, <<FALSE, FALSE, FALSE, TRUE, FALSE>>)

\* a strict search that returns some instants of the grid and omits others
C22_WitnessStrict ==
    /\ Returned_rows /\ ~call.return_all
    /\ Len(result.rows) >= 1
    /\ Len(result.rows) < Len(result.grid)
    /\ \A i \in 1..Len(result.rows) : result.rows[i].is_valid

\* the NatalLinkage hard-aspect mask of the instant t against the natal
\* reference: transiting Mars or Saturn within orb of a conjunction, square
\* or opposition to the natal Sun or Moon
HardAspectToNatalLightsAt(t) ==
    mask_hard_aspects_to_natal_lights([b \in DOMAIN LongsAt(t) |-> <<LongsAt(t)[b]>>],
                                      natal_reference[1], <<4, 6>>).value[1]

\* C23: when a natal reference is supplied, an instant at which the hard
\* aspect mask holds is returned with is_valid False, and is omitted by a
\* strict search
C23_HardAspectMaskRejects ==
    (Returned_rows /\ natal_reference # None) =>
        \A i \in 1..Len(result.rows) :
            HardAspectToNatalLightsAt(result.rows[i].timestamp) => ~result.rows[i].is_valid


\* C25: a void of course Moon rejects only when the Moon is not in Taurus or
\* Cancer: the Moon filters reject an instant exactly when the sign mask, or
\* the phase mask, or void of course outside Taurus and Cancer, holds
C25_VoidOfCourseExceptTaurusCancer ==
    Returned_rows =>
        \A i \in 1..Len(result.grid) :
            LET t == result.grid[i]
            IN result.masks[i].is_bad_moon <=>
                  \/ MoonInScorpioOrCapricornAt(t)
                  \/ NewOrFullMoonAt(t)
                  \/ (VoidOfCourseAt(t) /\ LongsAt(t)[1] \div SignWidth \notin {TAURUS, CANCER})

\* ------------------------------------------------------------------------
\* AlgoritmoBusqueda._eliminar_duplicados_por_tiempo called on a list of
\* results whose fecha_hora is in seconds
\* ------------------------------------------------------------------------
\* datetime.replace(second=0, microsecond=0)
tiempo_redondeado(fecha_hora) == (fecha_hora \div 60) * 60

\* mutant: a later result of the same minute replaces the one kept when the
\* scores are equal
eliminar_duplicados_keeping_last(momentos) ==
    LET F[i \in 0..Len(momentos)] ==
           IF i = 0 THEN << >>
           ELSE LET momento == momentos[i]
                    prev == F[i - 1]
                    same == {k \in 1..Len(prev) :
                                tiempo_redondeado(prev[k].fecha_hora)
                                   = tiempo_redondeado(momento.fecha_hora)}
                IN IF same = {} THEN Append(prev, momento)
                   ELSE LET k == CHOOSE x \in same : TRUE
                        IN IF momento.puntuacion_total >= prev[k].puntuacion_total
                           THEN [prev EXCEPT ![k] = momento] ELSE prev
    IN F[Len(momentos)]

\* the dict momentos_por_tiempo filled in the order of the list, then
\* list(momentos_por_tiempo.values()): a key keeps the position of its first
\* insertion
eliminar_duplicados_por_tiempo(momentos) ==
    LET F[i \in 0..Len(momentos)] ==
           IF i = 0 THEN << >>
           ELSE LET momento == momentos[i]
                    prev == F[i - 1]
                    same == {k \in 1..Len(prev) :
                                tiempo_redondeado(prev[k].fecha_hora)
                                   = tiempo_redondeado(momento.fecha_hora)}
                IN IF same = {} THEN Append(prev, momento)
                   ELSE LET k == CHOOSE x \in same : TRUE
                            momento_existente == prev[k]
                        IN IF momento.puntuacion_total > momento_existente.puntuacion_total
                           THEN [prev EXCEPT ![k] = momento]
                           ELSE IF /\ momento.puntuacion_total
                                        = momento_existente.puntuacion_total
                                   /\ momento.enraizamiento_score
                                        > momento_existente.enraizamiento_score
                           THEN [prev EXCEPT ![k] = momento]
                           ELSE prev
    IN F[Len(momentos)]

MaxDuplicados == 3

DuplicadosItems ==
    {[fecha_hora |-> f, puntuacion_total |-> p, enraizamiento_score |-> e] :
        f \in {0, 59, 60}, p \in {1, 2}, e \in {1, 2}}

\* lists of results, each carrying its position in the list as its details
DuplicadosLists ==
    UNION {{[k \in 1..n |-> items[k] @@ [detalles |-> k]] :
                items \in [1..n -> DuplicadosItems]} : n \in 0..MaxDuplicados}

InitDuplicados ==
    /\ IdleOthers
    /\ \E momentos \in DuplicadosLists :
          fn = [op |-> "eliminar_duplicados", momentos |-> momentos,
                called |-> FALSE, out |-> << >>]

AlgoritmoBusqueda_eliminar_duplicados_por_tiempo ==
    /\ fn.op = "eliminar_duplicados"
    /\ ~fn.called
    /\ fn' = [fn EXCEPT !.called = TRUE,
                        !.out = eliminar_duplicados_por_tiempo(fn.momentos)]
    /\ UNCHANGED <<world, task_progress, background, natal_reference, finder_vars, eph, hou, scc, legacy,
                   carta_electiva_cache>>

\* the legacy search, and the deduplication called on its own
InitFase2Duplicados == InitLegacy \/ InitDuplicados

NextFase2Duplicados == NextLegacy \/ AlgoritmoBusqueda_eliminar_duplicados_por_tiempo

SpecFase2Duplicados == InitFase2Duplicados /\ [][NextFase2Duplicados]_vars

\* the minute of an element of a list, and the elements of a minute
MinutesOf(items) == {items[k].fecha_hora \div 60 : k \in 1..Len(items)}

\* a is a better result than b for the deduplication
MasPuntuado(a, b) ==
    \/ a.puntuacion_total > b.puntuacion_total
    \/ /\ a.puntuacion_total = b.puntuacion_total
       /\ a.enraizamiento_score > b.enraizamiento_score

\* C26: the list the legacy search returns holds at most one result per
\* minute; the deduplication keeps, for every minute of its input, exactly
\* one result, the one with the highest total score, ties broken by the
\* higher enraizamiento score and then by the first occurrence
C26_OneResultPerMinute ==
    /\ (legacy.phase = "done" /\ ~legacy.raised) =>
          \A i, j \in 1..Len(legacy.retorno) :
             i # j => legacy.retorno[i].fecha_hora # legacy.retorno[j].fecha_hora
    /\ (fn.op = "eliminar_duplicados" /\ fn.called) =>
          /\ MinutesOf(fn.out) = MinutesOf(fn.momentos)
          /\ Cardinality(MinutesOf(fn.out)) = Len(fn.out)
          /\ \A k \in 1..Len(fn.out) :
                \E i \in 1..Len(fn.momentos) :
                   /\ fn.out[k] = fn.momentos[i]
                   /\ \A j \in 1..Len(fn.momentos) :
                         fn.momentos[j].fecha_hora \div 60 = fn.momentos[i].fecha_hora \div 60 =>
                            /\ ~MasPuntuado(fn.momentos[j], fn.momentos[i])
                            /\ (j < i => MasPuntuado(fn.momentos[i], fn.momentos[j]))

\* three results of one minute with equal best scores: the first is kept
C26_Witness ==
    /\ fn.op = "eliminar_duplicados" /\ fn.called
    /\ Len(fn.momentos) = 3 /\ Len(fn.out) = 1
    /\ fn.momentos[1].fecha_hora # fn.momentos[2].fecha_hora
    /\ fn.out[1] = fn.momentos[2]
    /\ ~MasPuntuado(fn.momentos[2], fn.momentos[3])
    /\ ~MasPuntuado(fn.momentos[3], fn.momentos[2])

\* a search that returns several results, each of its own minute
C26_WitnessSearch ==
    /\ legacy.phase = "done" /\ ~legacy.raised
    /\ Len(legacy.retorno) >= 3

\* ------------------------------------------------------------------------
\* The two phases of the legacy search, step by step
\* ------------------------------------------------------------------------
\* the instants every 30 minutes from the start (0) to the end, both included
GridInstants(fecha_fin) == {t \in 0..fecha_fin : t % 30 = 0}

\* the instants that survived Phase 1
Survivors == {legacy.momentos_fase1[i] : i \in legacy.aptos}

C27_State ==
    /\ (legacy.phase \in {"fase1", "fase2"} \/ (legacy.phase = "done" /\ ~legacy.raised)) =>
          /\ Range(legacy.momentos_fase1) = GridInstants(legacy.fecha_fin)
          /\ Len(legacy.momentos_fase1) = Cardinality(GridInstants(legacy.fecha_fin))
    /\ legacy.phase = "fase1" => legacy.completados = {} /\ legacy.calculos_fase_2 = 0
    /\ legacy.phase = "fase2" =>
          /\ legacy.pendientes = {}
          /\ Range(legacy.momentos_prometedores) = Survivors
          /\ Len(legacy.momentos_prometedores) = Cardinality(legacy.aptos)
    /\ legacy.phase = "done" =>
          /\ legacy.pendientes = {}
          /\ legacy.completados = 1..Len(legacy.momentos_prometedores)
          /\ \A i \in 1..Len(legacy.retorno) : legacy.retorno[i].fecha_hora \in Survivors
          /\ legacy.calculos_fase_1 = Cardinality(GridInstants(legacy.fecha_fin))
          /\ legacy.calculos_fase_2 = Cardinality(legacy.aptos)

C27_Steps ==
    /\ legacy'.pendientes # legacy.pendientes /\ legacy.phase = "fase1" =>
          \E i \in legacy.pendientes : legacy'.pendientes = legacy.pendientes \ {i}
    /\ legacy'.completados # legacy.completados /\ legacy.phase = "fase2" =>
          \E k \in 1..Len(legacy.momentos_prometedores) \ legacy.completados :
             /\ legacy'.completados = legacy.completados \cup {k}
             /\ legacy'.calculos_fase_2 = legacy.calculos_fase_2 + 1
    /\ legacy.phase = "done" => legacy' = legacy

\* C27: Phase 1 evaluates every instant of the 30-minute grid from the start
\* to the end, both included, exactly once; Phase 2 starts only when every
\* evaluation of Phase 1 has completed and evaluates every survivor exactly
\* once, without retry; every returned result is an instant that survived
\* Phase 1; at the end calculos_fase_1 is the size of the grid and
\* calculos_fase_2 the number of survivors
C27_TwoPhases == [](C27_State) /\ [][C27_Steps]_vars

\* a search that has returned results after Phase 1 rejected an instant of a
\* grid of at least three and Phase 2 discarded a survivor
C27_Witness ==
    /\ legacy.phase = "done" /\ ~legacy.raised
    /\ Len(legacy.momentos_fase1) >= 3
    /\ Cardinality(legacy.aptos) < Len(legacy.momentos_fase1)
    /\ legacy.calculos_fase_2 >= 2
    /\ Len(legacy.retorno) >= 1
    /\ Len(legacy.retorno) < legacy.calculos_fase_2

\* ------------------------------------------------------------------------
\* The tables from topic to house: config/temas_casas.py, core/theme_config.py
\* and EnraizamientoCalculator._get_casa_tema
\* ------------------------------------------------------------------------
TEMAS_CASAS_KEYS ==
    {"trabajo", "amor", "viajes", "salud", "dinero", "estudios", "familia",
     "creatividad", "amistades", "espiritualidad"}

TEMAS_CASAS ==
    [tema \in TEMAS_CASAS_KEYS |->
        CASE tema = "trabajo" -> 10 [] tema = "amor" -> 7 [] tema = "viajes" -> 9
          [] tema = "salud" -> 6 [] tema = "dinero" -> 2 [] tema = "estudios" -> 3
          [] tema = "familia" -> 4 [] tema = "creatividad" -> 5
          [] tema = "amistades" -> 11 [] tema = "espiritualidad" -> 12]

\* get_casa_for_tema(tema): raises ValueError for a topic that is no key
get_casa_for_tema(tema) ==
    IF tema \notin DOMAIN TEMAS_CASAS THEN Raised ELSE Returned(TEMAS_CASAS[tema])

\* get_temas_disponibles()
get_temas_disponibles == DOMAIN TEMAS_CASAS

\* BusquedaRequest.validar_tema(v): raises for a topic that is not available
validar_tema(v) ==
    IF v \notin get_temas_disponibles THEN Raised ELSE Returned(v)

\* the table local to EnraizamientoCalculator._get_casa_tema
temas_casas ==
    [tema \in {"trabajo", "carrera", "profesion", "amor", "pareja", "matrimonio",
               "dinero", "finanzas", "salud", "viajes", "estudios", "hogar", "familia"} |->
        CASE tema \in {"trabajo", "carrera", "profesion"} -> 10
          [] tema \in {"amor", "pareja", "matrimonio"} -> 7
          [] tema \in {"dinero", "finanzas"} -> 2
          [] tema = "salud" -> 6
          [] tema \in {"viajes", "estudios"} -> 9
          [] tema \in {"hogar", "familia"} -> 4]

\* EnraizamientoCalculator._get_casa_tema(tema_consulta): house 1 by default
get_casa_tema(tema_consulta) ==
    IF Lower(tema_consulta) \in DOMAIN temas_casas THEN temas_casas[Lower(tema_consulta)]
    ELSE 1

\* the topics asked: the keys of the three tables, a capitalised key and a
\* topic of no table
TemaInputs ==
    DOMAIN TEMAS_CASAS \cup DOMAIN THEMES \cup DOMAIN temas_casas \cup {"Trabajo", "jardin"}

InitTemas ==
    /\ IdleOthers
    /\ \E tema \in TemaInputs :
          fn = [op |-> "temas", tema |-> tema, validado |-> None, casa_for_tema |-> None,
                theme_config |-> None, casa_tema |-> None]

\* the validator of the request is applied to the topic
BusquedaRequest_validar_tema ==
    /\ fn.op = "temas" /\ fn.validado = None
    /\ fn' = [fn EXCEPT !.validado = Some(validar_tema(fn.tema))]
    /\ UNCHANGED <<world, task_progress, background, natal_reference, finder_vars, eph, hou, scc, legacy, carta_electiva_cache>>

\* get_casa_for_tema(tema) is called
Config_get_casa_for_tema ==
    /\ fn.op = "temas" /\ fn.casa_for_tema = None
    /\ fn' = [fn EXCEPT !.casa_for_tema = Some(get_casa_for_tema(fn.tema))]
    /\ UNCHANGED <<world, task_progress, background, natal_reference, finder_vars, eph, hou, scc, legacy, carta_electiva_cache>>

\* get_theme_config(theme_name)["target_house"] is read
ThemeConfig_get_theme_config ==
    /\ fn.op = "temas" /\ fn.theme_config = None
    /\ fn' = [fn EXCEPT !.theme_config = Some(get_theme_config(fn.tema).target_house)]
    /\ UNCHANGED <<world, task_progress, background, natal_reference, finder_vars, eph, hou, scc, legacy, carta_electiva_cache>>

\* calculator._get_casa_tema(tema_consulta) is called
EnraizamientoCalculator_get_casa_tema ==
    /\ fn.op = "temas" /\ fn.casa_tema = None
    /\ fn' = [fn EXCEPT !.casa_tema = Some(get_casa_tema(fn.tema))]
    /\ UNCHANGED <<world, task_progress, background, natal_reference, finder_vars, eph, hou, scc, legacy, carta_electiva_cache>>

NextTemas ==
    \/ BusquedaRequest_validar_tema
    \/ Config_get_casa_for_tema
    \/ ThemeConfig_get_theme_config
    \/ EnraizamientoCalculator_get_casa_tema

SpecTemas == InitTemas /\ [][NextTemas]_vars

\* C29: every topic the validator of the request accepts resolves to the same
\* house in get_casa_for_tema, get_theme_config and _get_casa_tema
C29_TablesAgree ==
    (/\ fn.op = "temas"
     /\ fn.validado # None /\ ~fn.validado[1].raised
     /\ fn.casa_for_tema # None /\ fn.theme_config # None /\ fn.casa_tema # None) =>
        /\ ~fn.casa_for_tema[1].raised
        /\ fn.casa_for_tema[1].value = fn.theme_config[1]
        /\ fn.casa_for_tema[1].value = fn.casa_tema[1]

\* the accepted topics on which the three tables do agree
C29_AgreeingTopics ==
    (/\ fn.op = "temas"
     /\ fn.validado # None /\ ~fn.validado[1].raised
     /\ fn.casa_for_tema # None /\ fn.theme_config # None /\ fn.casa_tema # None) =>
        ((/\ fn.casa_for_tema[1].value = fn.theme_config[1]
          /\ fn.casa_for_tema[1].value = fn.casa_tema[1])
            <=> fn.tema \in {"trabajo", "amor", "dinero"})

\* ------------------------------------------------------------------------
\* Claims about aspects of a ruler to itself
\* ------------------------------------------------------------------------
\* the ruler of the sign of the Ascendant at the instant t
AscRulerAt(t) == get_ruler_for_sign(finder.logic, get_sign_indices(AscmcAt(t)[1]))

\* the ruler of the sign on the cusp 10, the one the Moon's component
\* moon_aspect_ruler_h10 is scored against
Cusp10RulerAt(t) == get_ruler_for_sign(finder.logic, get_sign_indices(CuspsAt(t)[10]))

\* C28: no component of a row awards points for the aspect of a body with
\* itself: with one body ruling both the Ascendant and the topic house the
\* rulers-aspect component is 0; a ruler that is Jupiter (Venus) gets nothing
\* from its aspect-to-Jupiter (aspect-to-Venus) component; with the Moon as
\* ruler the Moon's aspect-to-ruler component is 0
C28_NoAspectOfBodyWithItself ==
    Returned_rows =>
        \A i \in 1..Len(result.rows) :
            LET row == result.rows[i]
                asc_ruler == AscRulerAt(row.timestamp)
                topic_ruler == TopicRulerAt(row.timestamp)
            IN /\ asc_ruler = topic_ruler => ComponentOf(row, "comb_pos_rulers_aspect") = 0
               /\ asc_ruler = 5 => ComponentOf(row, "ruler_asc_aspect_jupiter") = 0
               /\ asc_ruler = 3 => ComponentOf(row, "ruler_asc_aspect_venus") = 0
               /\ topic_ruler = 5 => ComponentOf(row, "ruler_h10_aspect_jupiter") = 0
               /\ topic_ruler = 3 => ComponentOf(row, "ruler_h10_aspect_venus") = 0
               /\ asc_ruler = 1 => ComponentOf(row, "moon_aspect_ruler_asc") = 0
               /\ Cusp10RulerAt(row.timestamp) = 1 =>
                     ComponentOf(row, "moon_aspect_ruler_h10") = 0

\* ------------------------------------------------------------------------
\* app.py: the search tasks of the service.  POST /buscar stores the progress
\* of a new task and schedules run_search_background on the event loop; the
\* search itself runs on a thread of the executor under asyncio.wait_for.
\* A coroutine runs alone on the loop between two awaits: while a task is
\* between its start and its first await no other handler runs.
\* ------------------------------------------------------------------------
MaxTasks == 2

\* what a request makes of the task: the birth data cannot be processed, the
\* start date is in the past, or the search is started
SearchRequests == {"ok", "natal_raises", "fecha_pasada"}

\* the outcomes of algoritmo.buscar_mejores_momentos on its thread: the
\* number of moments it returns
SearchReturns == {0, 2}

\* task_progress[task_id] = {"progress": 0, "status": ..., "result": None,
\* "error": None}
task_progress_entry ==
    [progress |-> 0, status |-> "Iniciando búsqueda...", result |-> None, error |-> None]

\* the handler that leaves the progress of the failed task as it was
run_search_background_except_keeps_progress(entry, e) ==
    [entry EXCEPT !.status = "Error: " \o e, !.error = Some(e)]

\* run_search_background, except Exception as e: progress -1, status, error
run_search_background_except(entry, e) ==
    [entry EXCEPT !.progress = 0 - 1, !.status = "Error: " \o e, !.error = Some(e)]

\* run_search_background after the search: progress 100, status, result
run_search_background_completed(entry, resultado) ==
    [entry EXCEPT !.progress = 100, !.status = "Búsqueda completada",
                  !.result = Some(resultado)]

\* buscar_momentos_electivos_async after wait_for: the response of the
\* moments the search returned (at most 20)
resultado_of(mejores_momentos) ==
    [momentos |-> Min(mejores_momentos, 20), total_momentos |-> mejores_momentos]

\* get_progress(task_id): the response of GET /progress/{task_id}; a result
\* dict is never empty, an error string is never empty
get_progress(progress_of, task_id) ==
    IF task_id \notin DOMAIN progress_of THEN [error |-> "Task ID no encontrado"]
    ELSE LET progress_data == progress_of[task_id]
         IN IF progress_data.progress >= 100 /\ progress_data.result # None
            THEN [progress |-> 100, status |-> "Completado",
                  result |-> progress_data.result[1]]
            ELSE IF progress_data.error # None
            THEN [progress |-> 0 - 1, status |-> "Error: " \o progress_data.error[1],
                  error |-> progress_data.error[1]]
            ELSE [progress |-> progress_data.progress, status |-> progress_data.status]

\* no coroutine is between two awaits
LoopIdle == \A t \in DOMAIN background : background[t].pc \notin {"started", "natal_ready"}

ServiceIdle ==
    /\ UNCHANGED <<world, natal_reference, finder_vars, eph, hou, scc, legacy,
                   carta_electiva_cache>>

InitTasks ==
    /\ IdleOthers
    /\ fn = NoFn

\* POST /buscar: a new task_id, its progress entry, the background task
buscar_momentos_electivos ==
    /\ LoopIdle
    /\ Len(task_progress) < MaxTasks
    /\ \E request \in SearchRequests :
          /\ task_progress' = Append(task_progress, task_progress_entry)
          /\ background' = Append(background,
                                  [request |-> request, pc |-> "scheduled",
                                   thread |-> "none", returns |-> 0, timeout |-> FALSE])
    /\ UNCHANGED fn
    /\ ServiceIdle

\* run_search_background starts: progress 5
run_search_background_start ==
    /\ LoopIdle
    /\ \E t \in DOMAIN background :
          /\ background[t].pc = "scheduled"
          /\ task_progress' = [task_progress EXCEPT
                                  ![t].progress = 5, ![t].status = "Calculando carta natal..."]
          /\ background' = [background EXCEPT ![t].pc = "started"]
    /\ UNCHANGED fn
    /\ ServiceIdle

\* service.calcular_carta_natal_desde_datos, then progress 20; any exception
\* of the calculation is raised as HTTPException 500
run_search_background_carta_natal ==
    /\ \E t \in DOMAIN background :
          /\ background[t].pc = "started"
          /\ IF background[t].request = "natal_raises"
             THEN /\ task_progress' = [task_progress EXCEPT
                                          ![t] = run_search_background_except(@, "500")]
                  /\ background' = [background EXCEPT ![t].pc = "done"]
             ELSE /\ task_progress' = [task_progress EXCEPT
                                          ![t].progress = 20,
                                          ![t].status = "Analizando constelaciones básicas..."]
                  /\ background' = [background EXCEPT ![t].pc = "natal_ready"]
    /\ UNCHANGED fn
    /\ ServiceIdle

\* buscar_momentos_electivos_async up to its await: a start date in the past
\* raises HTTPException 400, otherwise the search is handed to a thread of the
\* executor and the coroutine waits for it, 300 seconds at most
buscar_momentos_electivos_async ==
    /\ \E t \in DOMAIN background :
          /\ background[t].pc = "natal_ready"
          /\ IF background[t].request = "fecha_pasada"
             THEN /\ task_progress' = [task_progress EXCEPT
                                          ![t] = run_search_background_except(@, "400")]
                  /\ background' = [background EXCEPT ![t].pc = "done"]
             ELSE /\ background' = [background EXCEPT ![t].pc = "waiting",
                                                      ![t].thread = "running"]
                  /\ UNCHANGED task_progress
    /\ UNCHANGED fn
    /\ ServiceIdle

\* the thread of the search ends, returning moments or raising; it does so
\* whether or not its coroutine still waits for it
buscar_mejores_momentos_thread ==
    /\ \E t \in DOMAIN background :
          /\ background[t].thread = "running"
          /\ \/ \E n \in SearchReturns :
                   background' = [background EXCEPT ![t].thread = "returned", ![t].returns = n]
             \/ background' = [background EXCEPT ![t].thread = "raised"]
    /\ UNCHANGED <<task_progress, fn>>
    /\ ServiceIdle

\* asyncio.TimeoutError after 300 seconds, before the end of the thread has
\* reached the loop: HTTPException 408, handled by run_search_background
wait_for_timeout ==
    /\ LoopIdle
    /\ \E t \in DOMAIN background :
          /\ background[t].pc = "waiting"
          /\ task_progress' = [task_progress EXCEPT
                                  ![t] = run_search_background_except(@, "408")]
          /\ background' = [background EXCEPT ![t].pc = "done", ![t].timeout = TRUE]
    /\ UNCHANGED fn
    /\ ServiceIdle

\* wait_for gives the outcome of the thread: the response is built and the
\* task completed, or the exception is raised as HTTPException 500
wait_for_returns ==
    /\ LoopIdle
    /\ \E t \in DOMAIN background :
          /\ background[t].pc = "waiting"
          /\ background[t].thread \in {"returned", "raised"}
          /\ task_progress' = [task_progress EXCEPT
                ![t] = IF background[t].thread = "raised"
                       THEN run_search_background_except(@, "500")
                       ELSE run_search_background_completed(
                               @, resultado_of(background[t].returns))]
          /\ background' = [background EXCEPT ![t].pc = "done"]
    /\ UNCHANGED fn
    /\ ServiceIdle

\* GET /progress/{task_id}, for a task_id in use or not
App_get_progress ==
    /\ LoopIdle
    /\ \E task_id \in 1..MaxTasks :
          fn' = [op |-> "get_progress", task_id |-> task_id,
                 out |-> get_progress(task_progress, task_id)]
    /\ UNCHANGED <<task_progress, background>>
    /\ ServiceIdle

NextTasks ==
    \/ buscar_momentos_electivos
    \/ run_search_background_start
    \/ run_search_background_carta_natal
    \/ buscar_momentos_electivos_async
    \/ buscar_mejores_momentos_thread
    \/ wait_for_timeout
    \/ wait_for_returns
    \/ App_get_progress

SpecTasks == InitTasks /\ [][NextTasks]_vars

\* the progress values that end a task
Terminal(entry) == entry.progress \in {100, 0 - 1}

C30_State ==
    /\ \A t \in DOMAIN task_progress :
          LET entry == task_progress[t]
          IN /\ entry.progress \in {0, 5, 20, 100, 0 - 1}
             /\ entry.progress = 100 => entry.result # None /\ entry.error = None
             /\ entry.progress = 0 - 1 => entry.error # None /\ entry.result = None
             /\ entry.progress \in {0, 5, 20} => entry.result = None /\ entry.error = None
             /\ background[t].timeout => entry.progress = 0 - 1
    /\ (fn.op = "get_progress" /\ "result" \in DOMAIN fn.out) =>
          /\ fn.task_id \in DOMAIN task_progress
          /\ task_progress[fn.task_id].progress = 100
          /\ fn.out.progress = 100

C30_Steps ==
    \A t \in DOMAIN task_progress :
        /\ t \in DOMAIN task_progress'
        /\ Terminal(task_progress[t]) => task_progress'[t] = task_progress[t]
        /\ task_progress'[t].progress # task_progress[t].progress =>
              <<task_progress[t].progress, task_progress'[t].progress>> \in
                  {<<0, 5>>, <<5, 20>>, <<5, 0 - 1>>, <<20, 0 - 1>>, <<20, 100>>}

\* C30: the progress of a task only moves along 0, 5, 20 and then to one
\* terminal value, 100 with a result and no error or -1 with an error and no
\* result; a terminal entry never changes again; GET /progress answers with a
\* result only for a completed task; a task ended by the timeout stays in
\* error whatever its search thread does afterwards
C30_TaskProgress == [](C30_State) /\ [][C30_Steps]_vars

\* a task ended by the timeout whose search thread returned afterwards, asked
\* by GET /progress and answered with the error
C30_Witness ==
    \E t \in DOMAIN background :
        /\ background[t].timeout
        /\ background[t].thread = "returned"
        /\ fn.op = "get_progress" /\ fn.task_id = t
        /\ fn.out.progress = 0 - 1
        /\ "error" \in DOMAIN fn.out

\* a completed task asked by GET /progress and answered with its result
C30_WitnessCompleted ==
    /\ fn.op = "get_progress"
    /\ "result" \in DOMAIN fn.out
    /\ fn.out.result.total_momentos = 2

====
